---- MODULE Spec2Model ----
(***************************************************************************)
(* A model of the Lumina compiler: Lexer (src/src/lexer/index.ts), Parser  *)
(* (src/src/parser/index.ts), TypeChecker (src/src/typechecker/index.ts),  *)
(* CodeGenerator (src/unnamed/part_003) and compile (src/unnamed/part_004).*)
(*                                                                         *)
(* Conventions.  A JavaScript string that the code inspects character by   *)
(* character (the source text, a token's value, a name in the AST) is a    *)
(* sequence of one-character strings.  A string the code only builds (an   *)
(* error message, emitted JS/CSS/HTML) is a sequence of string pieces whose*)
(* concatenation is the JavaScript string.  Positions are 0-based as in    *)
(* the code; At(s, p) reads s[p].  A thrown exception is a result with     *)
(* ok = FALSE carrying the message.                                        *)
(***************************************************************************)
EXTENDS Integers, Sequences, FiniteSets, TLC

VARIABLES
  pc,        \* where the pipeline stands
  run,       \* which call of compile is under way: 1 or 2
  input,     \* what the source was put together from
  source,    \* Lexer.source
  pos,       \* Lexer.pos
  line,      \* Lexer.line
  column,    \* Lexer.column
  tokens,    \* Lexer.tokens, then the sequence tokenize returned
  error,     \* the message of the exception thrown, <<>> when none
  ast,       \* the Program parse returned
  parsePos,  \* Parser.pos when parse returned or threw
  checked,   \* what TypeChecker.check returned
  out1,      \* what the first compile's generate returned
  out2,      \* what the second compile's generate returned
  tyA,       \* isCompatible's actual type
  tyB,       \* isCompatible's expected type
  compat,    \* isCompatible's result
  checker,   \* TypeChecker.components of the checker that is used again
  cgen,      \* CodeGenerator.components and .styles of the generator that is
             \* used again
  freshChecked,  \* what a new TypeChecker's check returned for the program
  freshOut,  \* what a new CodeGenerator's generate returned for the program
  draws,     \* the random numbers the last generate drew
  rt         \* the page's script: the function lowered from a component as
             \* the browser runs it

vars == <<pc, run, input, source, pos, line, column, tokens, error, ast, parsePos,
          checked, out1, out2, tyA, tyB, compat,
          checker, cgen, freshChecked, freshOut, draws, rt>>

----------------------------------------------------------------------------
(* Bounds of the model *)

\* the longest source, in fragments, the lexer specification enumerates
MaxFrags == 3
\* the most assignments in an if block of the syntax specification
MaxAssignments == 3
\* the most top-level statements in a source of the pipeline specification
MaxStatements == 2
\* the length of the stream of random numbers one generate draws from
MaxDraws == 2
\* the deepest nesting of Array types isCompatible is tried on
MaxTypeDepth == 2
\* the most |> stages in a chain of the pipe specification
MaxStages == 3

----------------------------------------------------------------------------
(* Strings *)

Undefined == "undefined"
\* the grave accent, which SANY admits in no string literal
Backquote == "<grave accent>"
NoMsg == <<>>

Digits == {"0", "1", "2", "3", "4", "5", "6", "7", "8", "9"}
Lower == {"a", "b", "c", "d", "e", "f", "g", "h", "i", "j", "k", "l", "m",
          "n", "o", "p", "q", "r", "s", "t", "u", "v", "w", "x", "y", "z"}
Upper == {"A", "B", "C", "D", "E", "F", "G", "H", "I", "J", "K", "L", "M",
          "N", "O", "P", "Q", "R", "S", "T", "U", "V", "W", "X", "Y", "Z"}

\* s[p] of JavaScript: undefined outside the string
At(s, p) == IF p >= 0 /\ p < Len(s) THEN s[p + 1] ELSE Undefined

\* s.slice(a, b) for 0 <= a <= b
Slice(s, a, b) == SubSeq(s, a + 1, IF b > Len(s) THEN Len(s) ELSE b)

\* the concatenation of the strings ps[a..b], halving the range
RECURSIVE Concat(_, _, _)
Concat(ps, a, b) ==
  IF a > b THEN ""
  ELSE IF a = b THEN ps[a]
  ELSE Concat(ps, a, (a + b) \div 2) \o Concat(ps, (a + b) \div 2 + 1, b)

\* the JavaScript string a sequence of characters stands for
Str(cs) == Concat(cs, 1, Len(cs))

\* the JavaScript string a sequence of pieces stands for
Text(ps) == Concat(ps, 1, Len(ps))

\* the concatenation of a sequence of sequences
RECURSIVE Flatten(_)
Flatten(ss) == IF ss = <<>> THEN <<>> ELSE ss[1] \o Flatten(Tail(ss))

Max(a, b) == IF a >= b THEN a ELSE b

----------------------------------------------------------------------------
(* Lexer *)

isDigit(ch) == ch \in Digits
isAlpha(ch) == ch \in Lower \/ ch \in Upper \/ ch = "_"
isAlphaNumeric(ch) == isAlpha(ch) \/ isDigit(ch)

KeywordWords ==
  { <<"l","e","t">>, <<"v","a","r">>, <<"f","n">>,
    <<"r","e","t","u","r","n">>, <<"i","f">>, <<"e","l","s","e">>,
    <<"f","o","r">>, <<"i","n">>,
    <<"c","o","m","p","o","n","e","n","t">>, <<"s","t","a","t","e">>,
    <<"e","f","f","e","c","t">>, <<"s","t","y","l","e">>,
    <<"e","m","i","t">>, <<"o","n">>, <<"i","m","p","o","r","t">>,
    <<"e","x","p","o","r","t">>, <<"f","r","o","m">>,
    <<"t","r","u","e">>, <<"f","a","l","s","e">>, <<"n","u","l","l">> }

\* the members a plain object literal inherits from Object.prototype: for
\* these words KEYWORDS[word] is a function (or the prototype), not undefined
ObjectPrototypeWords ==
  { <<"c","o","n","s","t","r","u","c","t","o","r">>,
    <<"t","o","S","t","r","i","n","g">>,
    <<"v","a","l","u","e","O","f">>,
    <<"h","a","s","O","w","n","P","r","o","p","e","r","t","y">>,
    <<"i","s","P","r","o","t","o","t","y","p","e","O","f">>,
    <<"t","o","L","o","c","a","l","e","S","t","r","i","n","g">>,
    <<"_","_","p","r","o","t","o","_","_">> }

\* KEYWORDS[word] || TokenType.Identifier: every keyword's token type is the
\* word itself (types.ts 14-33); an inherited member is truthy and is
\* returned as it is, a value that is no TokenType
KeywordType(word) ==
  IF word \in KeywordWords THEN Str(word)
  ELSE IF word \in ObjectPrototypeWords THEN "[inherited " \o Str(word) \o "]"
  ELSE "Identifier"

\* a token as addToken builds it
Token(type, value, ln, col) ==
  [type |-> type, value |-> value, line |-> ln, column |-> col]

\* a lexer state: the fields of the Lexer object and the exception thrown
LexState(p, ln, col, toks, err) ==
  [pos |-> p, line |-> ln, column |-> col, tokens |-> toks, error |-> err]

\* skipWhitespace: the position after the blanks at p
RECURSIVE skipWhitespace(_, _)
skipWhitespace(src, p) ==
  IF p < Len(src) /\ At(src, p) \in {" ", "\t", "\r"}
  THEN skipWhitespace(src, p + 1) ELSE p

\* skipLineComment: the position of the line feed ending the comment
RECURSIVE skipLineComment(_, _)
skipLineComment(src, p) ==
  IF p < Len(src) /\ At(src, p) # "\n" THEN skipLineComment(src, p + 1) ELSE p

\* the loop of skipBlockComment from position p; closed tells whether the
\* closing */ was found (otherwise the code throws)
RECURSIVE blockCommentLoop(_, _, _, _)
blockCommentLoop(src, p, ln, col) ==
  IF p < Len(src) - 1
  THEN LET nl == At(src, p) = "\n"
           ln1 == IF nl THEN ln + 1 ELSE ln
           col1 == IF nl THEN 0 ELSE col
       IN IF At(src, p) = "*" /\ At(src, p + 1) = "/"
          THEN [pos |-> p + 2, line |-> ln1, column |-> col1 + 2, closed |-> TRUE]
          ELSE blockCommentLoop(src, p + 1, ln1, col1 + 1)
  ELSE [pos |-> p, line |-> ln, column |-> col, closed |-> FALSE]

\* the message of skipBlockComment's exception: the line only
BlockCommentMessage(ln) ==
  <<"Unterminated block comment", " at line ", ToString(ln)>>

skipBlockComment(src, st) ==
  LET r == blockCommentLoop(src, st.pos + 2, st.line, st.column + 2)
  IN IF r.closed
     THEN LexState(r.pos, r.line, r.column, st.tokens, NoMsg)
     ELSE LexState(r.pos, r.line, r.column, st.tokens, BlockCommentMessage(r.line))

\* the position after the digits at p
RECURSIVE digitsEnd(_, _)
digitsEnd(src, p) ==
  IF p < Len(src) /\ isDigit(At(src, p)) THEN digitsEnd(src, p + 1) ELSE p

readNumber(src, st) ==
  LET start == st.pos
      p1 == digitsEnd(src, start)
      p2 == IF p1 < Len(src) /\ At(src, p1) = "." /\ isDigit(At(src, p1 + 1))
            THEN digitsEnd(src, p1 + 1) ELSE p1
      col == st.column + (p2 - start)
  IN LexState(p2, st.line, col,
              Append(st.tokens, Token("Number", Slice(src, start, p2), st.line, col)),
              NoMsg)

\* the character an escape \c stands for; source[pos] may be undefined
Unescape(c) ==
  CASE c = "n" -> "\n"
    [] c = "t" -> "\t"
    [] OTHER -> c

\* the loop of readString from position p
RECURSIVE stringLoop(_, _, _, _, _)
stringLoop(src, p, ln, col, value) ==
  IF p < Len(src) /\ At(src, p) # "\""
  THEN IF At(src, p) = "\\"
       THEN stringLoop(src, p + 2, ln, col + 2, Append(value, Unescape(At(src, p + 1))))
       ELSE IF At(src, p) = "\n"
            THEN stringLoop(src, p + 1, ln + 1, 1, Append(value, At(src, p)))
            ELSE stringLoop(src, p + 1, ln, col + 1, Append(value, At(src, p)))
  ELSE [pos |-> p, line |-> ln, column |-> col, value |-> value]

\* the message of readString's exception: the line only
StringMessage(ln) == <<"Unterminated string", " at line ", ToString(ln)>>

readString(src, st) ==
  LET r == stringLoop(src, st.pos + 1, st.line, st.column + 1, <<>>)
  IN IF r.pos >= Len(src)
     THEN LexState(r.pos, r.line, r.column, st.tokens, StringMessage(r.line))
     ELSE LexState(r.pos + 1, r.line, r.column + 1,
                   Append(st.tokens, Token("String", r.value, r.line, r.column + 1)),
                   NoMsg)

\* the loop of readTemplateString from position p
RECURSIVE templateLoop(_, _, _, _, _)
templateLoop(src, p, ln, col, value) ==
  IF p < Len(src) /\ At(src, p) # Backquote
  THEN IF At(src, p) = "\n"
       THEN templateLoop(src, p + 1, ln + 1, 1, Append(value, At(src, p)))
       ELSE templateLoop(src, p + 1, ln, col + 1, Append(value, At(src, p)))
  ELSE [pos |-> p, line |-> ln, column |-> col, value |-> value]

\* the message of readTemplateString's exception: the line only
TemplateMessage(ln) ==
  <<"Unterminated template string", " at line ", ToString(ln)>>

readTemplateString(src, st) ==
  LET r == templateLoop(src, st.pos + 1, st.line, st.column + 1, <<>>)
  IN IF r.pos >= Len(src)
     THEN LexState(r.pos, r.line, r.column, st.tokens, TemplateMessage(r.line))
     ELSE LexState(r.pos + 1, r.line, r.column + 1,
                   Append(st.tokens, Token("String", r.value, r.line, r.column + 1)),
                   NoMsg)

\* the position after the letters, digits and underscores at p
RECURSIVE wordEnd(_, _)
wordEnd(src, p) ==
  IF p < Len(src) /\ isAlphaNumeric(At(src, p)) THEN wordEnd(src, p + 1) ELSE p

readIdentifier(src, st) ==
  LET start == st.pos
      p1 == wordEnd(src, start)
      word == Slice(src, start, p1)
      col == st.column + (p1 - start)
  IN LexState(p1, st.line, col,
              Append(st.tokens, Token(KeywordType(word), word, st.line, col)),
              NoMsg)

matchTwo(src, p, a, b) == p < Len(src) - 1 /\ At(src, p) = a /\ At(src, p + 1) = b

\* the two-character operators, in the order tokenize tries them
TwoCharOps == << <<"|", ">">>, <<"=", ">">>, <<"=", "=">>, <<"!", "=">>,
                 <<"<", "=">>, <<">", "=">>, <<"&", "&">>, <<"|", "|">>,
                 <<".", ".">> >>

\* the characters of tokenize's switch; '?' is emitted as an Identifier
OneCharOps == {"+", "-", "*", "/", "%", "=", "<", ">", "!", "(", ")", "{", "}",
               "[", "]", ",", ":", ";", ".", "@", "#", "?"}

OneCharType(ch) == IF ch = "?" THEN "Identifier" ELSE ch

\* the message of tokenize's default case: the line and the column
UnexpectedCharMessage(ch, ln, col) ==
  <<"Unexpected character '", ch, "'", " at line ", ToString(ln),
    ", column ", ToString(col)>>

\* a line feed case that leaves the position where it is: what tokenize is
\* not
lexNewlineInPlace(st) ==
  LexState(st.pos, st.line + 1, 1,
           Append(st.tokens, Token("Newline", <<"\\", "n">>, st.line, st.column)),
           NoMsg)

\* the line feed case of tokenize: the token is added, then the position
\* advances and the line counter moves on
lexNewline(st) ==
  LexState(st.pos + 1, st.line + 1, 1,
           Append(st.tokens, Token("Newline", <<"\\", "n">>, st.line, st.column)),
           NoMsg)

\* an operator of n characters: the token is added, then advance() n times
lexOperator(st, type, value) ==
  LexState(st.pos + Len(value), st.line, st.column + Len(value),
           Append(st.tokens, Token(type, value, st.line, st.column)), NoMsg)

\* one iteration of tokenize's while loop, from a state with pos < length
lexIteration(src, st0) ==
  LET p == skipWhitespace(src, st0.pos)
      st == LexState(p, st0.line, st0.column + (p - st0.pos), st0.tokens, NoMsg)
      ch == At(src, p)
      two == {i \in 1..Len(TwoCharOps) : matchTwo(src, p, TwoCharOps[i][1], TwoCharOps[i][2])}
  IN IF p >= Len(src) THEN st
     ELSE IF ch = "\n" THEN lexNewline(st)
     ELSE IF ch = "/" /\ At(src, p + 1) = "/"
          THEN LexState(skipLineComment(src, p), st.line,
                        st.column + (skipLineComment(src, p) - p), st.tokens, NoMsg)
     ELSE IF ch = "/" /\ At(src, p + 1) = "*" THEN skipBlockComment(src, st)
     ELSE IF isDigit(ch) THEN readNumber(src, st)
     ELSE IF ch = "\"" THEN readString(src, st)
     ELSE IF ch = Backquote THEN readTemplateString(src, st)
     ELSE IF isAlpha(ch) \/ ch = "_" THEN readIdentifier(src, st)
     ELSE IF two # {}
          THEN LET op == TwoCharOps[CHOOSE i \in two : \A j \in two : i <= j]
               IN lexOperator(st, Str(op), op)
     ELSE IF ch \in OneCharOps THEN lexOperator(st, OneCharType(ch), <<ch>>)
     ELSE LexState(p, st.line, st.column, st.tokens,
                   UnexpectedCharMessage(ch, st.line, st.column))

\* the token types after which filterNewlines drops a Newline
OpeningTypes == {"{", "(", "[", ",", ";"}
\* the token types before which filterNewlines removes a Newline
ClosingTypes == {"}", ")", "]", "else"}

\* an iteration that treats the EOF token as it treats a Newline: what
\* filterNewlines is not
filterStepOnEOF(result, t) ==
  LET n == Len(result)
      prev == IF n > 0 THEN result[n].type ELSE "none"
  IN IF t.type \in {"Newline", "EOF"}
     THEN IF n > 0 /\ prev = "Newline" THEN result
          ELSE IF n > 0 /\ prev \in OpeningTypes THEN result
          ELSE Append(result, t)
     ELSE IF n > 0 /\ prev = "Newline" /\ t.type \in ClosingTypes
          THEN Append(SubSeq(result, 1, n - 1), t)
          ELSE Append(result, t)

\* an iteration that drops a Newline after an opening brace only, not after
\* the other delimiters: what filterNewlines is not
filterStepAfterBraceOnly(result, t) ==
  LET n == Len(result)
      prev == IF n > 0 THEN result[n].type ELSE "none"
  IN IF t.type = "Newline"
     THEN IF n > 0 /\ prev = "Newline" THEN result
          ELSE IF n > 0 /\ prev = "{" THEN result
          ELSE Append(result, t)
     ELSE IF n > 0 /\ prev = "Newline" /\ t.type \in ClosingTypes
          THEN Append(SubSeq(result, 1, n - 1), t)
          ELSE Append(result, t)

\* an iteration that takes back a Newline before a closing delimiter but not
\* before else: what filterNewlines is not
filterStepBeforeDelimitersOnly(result, t) ==
  LET n == Len(result)
      prev == IF n > 0 THEN result[n].type ELSE "none"
  IN IF t.type = "Newline"
     THEN IF n > 0 /\ prev = "Newline" THEN result
          ELSE IF n > 0 /\ prev \in OpeningTypes THEN result
          ELSE Append(result, t)
     ELSE IF n > 0 /\ prev = "Newline" /\ t.type \in {"}", ")", "]"}
          THEN Append(SubSeq(result, 1, n - 1), t)
          ELSE Append(result, t)

\* one iteration of filterNewlines' loop: result after token t
filterStep(result, t) ==
  LET n == Len(result)
      prev == IF n > 0 THEN result[n].type ELSE "none"
  IN IF t.type = "Newline"
     THEN IF n > 0 /\ prev = "Newline" THEN result
          ELSE IF n > 0 /\ prev \in OpeningTypes THEN result
          ELSE Append(result, t)
     ELSE IF n > 0 /\ prev = "Newline" /\ t.type \in ClosingTypes
          THEN Append(SubSeq(result, 1, n - 1), t)
          ELSE Append(result, t)

\* filterNewlines' loop: st holds the index i and the result so far
RECURSIVE filterLoop(_, _)
filterLoop(toks, st) ==
  IF st.i > Len(toks) THEN st.result
  ELSE filterLoop(toks, [i |-> st.i + 1,
                         result |-> filterStep(st.result, toks[st.i])])

filterNewlines(toks) == filterLoop(toks, [i |-> 1, result |-> <<>>])

\* the end of tokenize: the EOF token is added and the newlines filtered
lexFinish(st) ==
  LexState(st.pos, st.line, st.column,
           filterNewlines(Append(st.tokens, Token("EOF", <<>>, st.line, st.column))),
           NoMsg)

\* tokenize's while loop, run until it exits or throws
RECURSIVE tokenizeLoop(_, _)
tokenizeLoop(src, st) ==
  IF st.error = NoMsg /\ st.pos < Len(src)
  THEN tokenizeLoop(src, lexIteration(src, st))
  ELSE st

\* new Lexer(source).tokenize()
tokenize(src) ==
  LET st == tokenizeLoop(src, LexState(0, 1, 1, <<>>, NoMsg))
  IN IF st.error # NoMsg THEN st ELSE lexFinish(st)

----------------------------------------------------------------------------
(* Parser: results and helpers *)

\* an absent AST node (undefined) and the null of a UI attribute's value
NoNode == [type |-> "undefined"]
NullNode == [type |-> "null"]

\* a parse method's outcome: it returned val with the cursor at pos, or it
\* threw err with the cursor at pos
Ok(v, p) == [ok |-> TRUE, val |-> v, pos |-> p, err |-> NoMsg]
Fail(msg, p) == [ok |-> FALSE, val |-> NoNode, pos |-> p, err |-> msg]

\* the TypeError of reading a property of undefined
TypeErrorMessage == <<"TypeError: Cannot read properties of undefined">>
\* a loop iteration that ends where it began, with nothing to stop the next
NoProgressMessage == <<"(the loop repeats without advancing)">>

\* Parser.error
ParseErrorMessage(msg, p) ==
  LET i == IF p < Len(tokens) - 1 THEN p ELSE Len(tokens) - 1
  IN IF i < 0 THEN TypeErrorMessage
     ELSE <<"[Parse Error] ">> \o msg \o
          <<" at line ", ToString(tokens[i + 1].line),
            ", col ", ToString(tokens[i + 1].column)>>

isAtEnd(p) == p >= Len(tokens) \/ tokens[p + 1].type = "EOF"
check(p, type) == ~isAtEnd(p) /\ tokens[p + 1].type = type
\* the cursor after match(type)
match(p, type) == IF check(p, type) THEN p + 1 ELSE p

ExpectedMessage(type, cur) ==
  <<"Expected ", type, ", got ", cur.type, " (", Str(cur.value), ")">>

\* expect(type): the token, or the exception
expect(p, type) ==
  IF check(p, type) THEN Ok(tokens[p + 1], p + 1)
  ELSE IF p >= Len(tokens) THEN Fail(TypeErrorMessage, p)
  ELSE Fail(ParseErrorMessage(ExpectedMessage(type, tokens[p + 1]), p), p)

IdentifierLikeTypes ==
  {"Identifier", "style", "for", "in", "on", "state", "let", "var", "if", "else",
   "return", "true", "false", "null", "fn", "component", "effect", "import",
   "export", "from", "emit"}

isIdentifierLike(p) == ~isAtEnd(p) /\ tokens[p + 1].type \in IdentifierLikeTypes

expectIdentifierOrKeyword(p) ==
  IF isIdentifierLike(p) THEN Ok(tokens[p + 1].value, p + 1)
  ELSE IF p >= Len(tokens) THEN Fail(TypeErrorMessage, p)
  ELSE Fail(ParseErrorMessage(<<"Expected identifier, got ", tokens[p + 1].type,
                                " (", Str(tokens[p + 1].value), ")">>, p), p)

RECURSIVE skipNewlines(_)
skipNewlines(p) ==
  IF check(p, "Newline") \/ check(p, ";") THEN skipNewlines(p + 1) ELSE p

\* a skipTerminator that advances whatever the token is: what skipTerminator
\* is not
skipTerminatorUnchecked(p) == p + 1

skipTerminator(p) ==
  IF check(p, "Newline") THEN p + 1 ELSE IF check(p, ";") THEN p + 1 ELSE p

\* /^[a-zA-Z]/.test(value) and /^[A-Z]/.test(value)
StartsWithLetter(value) == value # <<>> /\ (value[1] \in Lower \/ value[1] \in Upper)
StartsWithUpper(value) == value # <<>> /\ value[1] \in Upper

\* an isUIElement that takes any Identifier after '<' for a tag name: what
\* isUIElement is not
isUIElementAnyIdentifier(p) ==
  /\ check(p, "<")
  /\ p + 1 < Len(tokens)
  /\ tokens[p + 2].type = "Identifier"

isUIElement(p) ==
  /\ check(p, "<")
  /\ p + 1 < Len(tokens)
  /\ tokens[p + 2].type = "Identifier"
  /\ StartsWithLetter(tokens[p + 2].value)

isClosingTag(p) ==
  check(p, "<") /\ p + 1 < Len(tokens) /\ tokens[p + 2].type = "/"

\* the scan of isArrowFunction from index i at depth d
RECURSIVE arrowScan(_, _)
arrowScan(i, d) ==
  IF i < Len(tokens)
  THEN LET d1 == IF tokens[i + 1].type = "(" THEN d + 1
                 ELSE IF tokens[i + 1].type = ")" THEN d - 1 ELSE d
       IN IF d1 = 0
          THEN i + 1 < Len(tokens) /\ tokens[i + 2].type = "=>"
          ELSE arrowScan(i + 1, d1)
  ELSE FALSE

isArrowFunction(p) == arrowScan(p, 0)

\* the index of the first token after the Newline tokens from i
RECURSIVE afterNewlines(_)
afterNewlines(i) ==
  IF i < Len(tokens) /\ tokens[i + 1].type = "Newline" THEN afterNewlines(i + 1) ELSE i

isObjectLiteral(p) ==
  LET i == afterNewlines(p + 1)
  IN i + 1 < Len(tokens) /\ tokens[i + 1].type = "Identifier" /\ tokens[i + 2].type = ":"

\* the value of one decimal digit
DigitValue(c) ==
  CASE c = "0" -> 0 [] c = "1" -> 1 [] c = "2" -> 2 [] c = "3" -> 3 [] c = "4" -> 4
    [] c = "5" -> 5 [] c = "6" -> 6 [] c = "7" -> 7 [] c = "8" -> 8 [] c = "9" -> 9

RECURSIVE DigitsValue(_, _)
DigitsValue(ds, acc) ==
  IF ds = <<>> THEN acc ELSE DigitsValue(Tail(ds), 10 * acc + DigitValue(ds[1]))

RECURSIVE StripZeros(_)
StripZeros(ds) ==
  IF ds # <<>> /\ ds[Len(ds)] = "0" THEN StripZeros(SubSeq(ds, 1, Len(ds) - 1)) ELSE ds

\* parseFloat of a Number token's text, digits(.digits)?: the number as its
\* integer part and the digits of its fraction, exact for the short literals
\* of the model (a double holds them)
parseFloat(text) ==
  LET dot == {i \in 1..Len(text) : text[i] = "."}
      d == IF dot = {} THEN Len(text) + 1 ELSE CHOOSE i \in dot : TRUE
  IN [int |-> DigitsValue(SubSeq(text, 1, d - 1), 0),
      frac |-> StripZeros(SubSeq(text, d + 1, Len(text)))]

----------------------------------------------------------------------------
(* Parser: statements *)

RECURSIVE production(_, _)
RECURSIVE parseStatement(_), parseBlock(_), blockLoop(_, _), parseExpression(_)
RECURSIVE parseUIElement(_), parseIf(_), parseParams(_), paramsLoop(_, _)
RECURSIVE parseAssignment(_), parseUnary(_), parsePrimary(_), binaryLoop(_, _)
RECURSIVE postfixLoop(_), argumentsLoop(_, _), elementsLoop(_, _)
RECURSIVE propertiesLoop(_, _), attributesLoop(_, _, _, _), childrenLoop(_, _)
RECURSIVE styleLoop(_, _), pipeLoop(_), parseCallAndMember(_)

\* the specifier loop of parseImport
RECURSIVE importLoop(_, _)
importLoop(p, specifiers) ==
  IF check(p, "}") THEN Ok(specifiers, p)
  ELSE LET id == expect(p, "Identifier") IN
       IF ~id.ok THEN id
       ELSE IF ~check(id.pos, ",") THEN Ok(Append(specifiers, id.val.value), id.pos)
       ELSE importLoop(skipNewlines(id.pos + 1), Append(specifiers, id.val.value))

parseImport(p) ==
  LET kw == expect(p, "import") IN
  IF ~kw.ok THEN kw ELSE
  LET open == expect(kw.pos, "{") IN
  IF ~open.ok THEN open ELSE
  LET specs == importLoop(open.pos, <<>>) IN
  IF ~specs.ok THEN specs ELSE
  LET close == expect(specs.pos, "}") IN
  IF ~close.ok THEN close ELSE
  LET from == expect(close.pos, "from") IN
  IF ~from.ok THEN from ELSE
  LET src == expect(from.pos, "String") IN
  IF ~src.ok THEN src ELSE
  Ok([type |-> "ImportDecl", specifiers |-> specs.val, source |-> src.val.value],
     skipTerminator(src.pos))

\* export <statement>: the declaration is whatever parseStatement returns
parseExport(p) ==
  LET kw == expect(p, "export") IN
  IF ~kw.ok THEN kw ELSE
  LET decl == production("parseStatement", <<kw.pos>>) IN
  IF ~decl.ok THEN decl ELSE
  Ok([type |-> "ExportDecl", declaration |-> decl.val], decl.pos)

\* the optional ": Type" after a name: the annotation (<<>> when absent)
typeAnnotationAt(p) ==
  IF check(p, ":")
  THEN LET ty == expect(p + 1, "Identifier") IN
       IF ~ty.ok THEN ty ELSE Ok(ty.val.value, ty.pos)
  ELSE Ok(<<>>, p)

paramsLoop(p, params) ==
  IF check(p, ")") THEN Ok(params, p)
  ELSE LET name == expect(p, "Identifier") IN
       IF ~name.ok THEN name ELSE
       LET ty == typeAnnotationAt(name.pos) IN
       IF ~ty.ok THEN ty ELSE
       LET def == IF check(ty.pos, "=") THEN production("parseExpression", <<ty.pos + 1>>)
                  ELSE Ok(NoNode, ty.pos) IN
       IF ~def.ok THEN def ELSE
       LET param == [name |-> name.val.value, typeAnnotation |-> ty.val,
                     defaultValue |-> def.val] IN
       IF ~check(def.pos, ",") THEN Ok(Append(params, param), def.pos)
       ELSE paramsLoop(skipNewlines(def.pos + 1), Append(params, param))

parseParams(p) == paramsLoop(skipNewlines(p), <<>>)

parseComponent(p) ==
  LET kw == expect(p, "component") IN
  IF ~kw.ok THEN kw ELSE
  LET name == expect(kw.pos, "Identifier") IN
  IF ~name.ok THEN name ELSE
  LET paren == check(name.pos, "(")
      params == IF paren THEN production("parseParams", <<name.pos + 1>>) ELSE Ok(<<>>, name.pos) IN
  IF ~params.ok THEN params ELSE
  LET rparen == IF paren THEN expect(params.pos, ")") ELSE Ok(NoNode, params.pos) IN
  IF ~rparen.ok THEN rparen ELSE
  LET open == expect(rparen.pos, "{") IN
  IF ~open.ok THEN open ELSE
  LET body == production("parseBlock", <<open.pos>>) IN
  IF ~body.ok THEN body ELSE
  LET close == expect(body.pos, "}") IN
  IF ~close.ok THEN close ELSE
  Ok([type |-> "ComponentDecl", name |-> name.val.value, params |-> params.val,
      body |-> body.val], close.pos)

\* the optional "-> Type" of parseFunction; a '-' not followed by '>' is put
\* back (pos = saved)
returnTypeAt(p) ==
  IF check(p, "-") /\ check(p + 1, ">")
  THEN LET ty == expect(p + 2, "Identifier") IN
       IF ~ty.ok THEN ty ELSE Ok(ty.val.value, ty.pos)
  ELSE Ok(<<>>, p)

parseFunction(p) ==
  LET kw == expect(p, "fn") IN
  IF ~kw.ok THEN kw ELSE
  LET name == expect(kw.pos, "Identifier") IN
  IF ~name.ok THEN name ELSE
  LET lparen == expect(name.pos, "(") IN
  IF ~lparen.ok THEN lparen ELSE
  LET params == production("parseParams", <<lparen.pos>>) IN
  IF ~params.ok THEN params ELSE
  LET rparen == expect(params.pos, ")") IN
  IF ~rparen.ok THEN rparen ELSE
  LET ret == returnTypeAt(rparen.pos) IN
  IF ~ret.ok THEN ret ELSE
  LET open == expect(ret.pos, "{") IN
  IF ~open.ok THEN open ELSE
  LET body == production("parseBlock", <<open.pos>>) IN
  IF ~body.ok THEN body ELSE
  LET close == expect(body.pos, "}") IN
  IF ~close.ok THEN close ELSE
  Ok([type |-> "FunctionDecl", name |-> name.val.value, params |-> params.val,
      returnType |-> ret.val, body |-> body.val], close.pos)

\* what parseVariable and parseState share: name, annotation, '=', value
bindingAt(p) ==
  LET name == expect(p, "Identifier") IN
  IF ~name.ok THEN name ELSE
  LET ty == typeAnnotationAt(name.pos) IN
  IF ~ty.ok THEN ty ELSE
  LET eq == expect(ty.pos, "=") IN
  IF ~eq.ok THEN eq ELSE
  LET value == production("parseExpression", <<eq.pos>>) IN
  IF ~value.ok THEN value ELSE
  Ok([name |-> name.val.value, typeAnnotation |-> ty.val, value |-> value.val],
     skipTerminator(value.pos))

\* parseVariable is entered on a let or var token, which advance() consumes
parseVariable(p, mutable) ==
  LET b == production("bindingAt", <<p + 1>>) IN
  IF ~b.ok THEN b ELSE
  Ok([type |-> "VariableDecl", name |-> b.val.name, mutable |-> mutable,
      typeAnnotation |-> b.val.typeAnnotation, value |-> b.val.value], b.pos)

parseState(p) ==
  LET kw == expect(p, "state") IN
  IF ~kw.ok THEN kw ELSE
  LET b == production("bindingAt", <<kw.pos>>) IN
  IF ~b.ok THEN b ELSE
  Ok([type |-> "StateDecl", name |-> b.val.name,
      typeAnnotation |-> b.val.typeAnnotation, value |-> b.val.value], b.pos)

\* the dependency loop of parseEffect
RECURSIVE dependenciesLoop(_, _)
dependenciesLoop(p, deps) ==
  IF check(p, ")") THEN Ok(deps, p)
  ELSE LET id == expect(p, "Identifier") IN
       IF ~id.ok THEN id
       ELSE IF ~check(id.pos, ",") THEN Ok(Append(deps, id.val.value), id.pos)
       ELSE dependenciesLoop(id.pos + 1, Append(deps, id.val.value))

parseEffect(p) ==
  LET kw == expect(p, "effect") IN
  IF ~kw.ok THEN kw ELSE
  LET paren == check(kw.pos, "(")
      deps == IF paren THEN dependenciesLoop(kw.pos + 1, <<>>) ELSE Ok(<<>>, kw.pos) IN
  IF ~deps.ok THEN deps ELSE
  LET rparen == IF paren THEN expect(deps.pos, ")") ELSE Ok(NoNode, deps.pos) IN
  IF ~rparen.ok THEN rparen ELSE
  LET open == expect(rparen.pos, "{") IN
  IF ~open.ok THEN open ELSE
  LET body == production("parseBlock", <<open.pos>>) IN
  IF ~body.ok THEN body ELSE
  LET close == expect(body.pos, "}") IN
  IF ~close.ok THEN close ELSE
  Ok([type |-> "EffectDecl", dependencies |-> deps.val, body |-> body.val], close.pos)

styleLoop(p, properties) ==
  IF check(p, "}") THEN Ok(properties, p)
  ELSE LET key == expect(p, "Identifier") IN
       IF ~key.ok THEN key ELSE
       LET colon == expect(key.pos, ":") IN
       IF ~colon.ok THEN colon ELSE
       LET value == production("parseExpression", <<colon.pos>>) IN
       IF ~value.ok THEN value ELSE
       LET q == IF check(value.pos, ",") THEN value.pos + 1 ELSE match(value.pos, ";")
       IN styleLoop(skipNewlines(q),
                    Append(properties, [key |-> key.val.value, value |-> value.val]))

parseStyleDecl(p) ==
  LET kw == expect(p, "style") IN
  IF ~kw.ok THEN kw ELSE
  LET named == check(kw.pos, "Identifier")
      name == IF named THEN tokens[kw.pos + 1].value ELSE <<>>
      open == expect(IF named THEN kw.pos + 1 ELSE kw.pos, "{") IN
  IF ~open.ok THEN open ELSE
  LET props == production("styleLoop", <<skipNewlines(open.pos), <<>>>>) IN
  IF ~props.ok THEN props ELSE
  LET close == expect(props.pos, "}") IN
  IF ~close.ok THEN close ELSE
  Ok([type |-> "StyleDecl", name |-> name, properties |-> props.val], close.pos)

parseReturn(p) ==
  LET kw == expect(p, "return") IN
  IF ~kw.ok THEN kw ELSE
  LET bare == check(kw.pos, "Newline") \/ check(kw.pos, "}") \/ check(kw.pos, ";")
              \/ isAtEnd(kw.pos)
      value == IF bare THEN Ok(NoNode, kw.pos) ELSE production("parseExpression", <<kw.pos>>) IN
  IF ~value.ok THEN value ELSE
  Ok([type |-> "ReturnStatement", value |-> value.val], skipTerminator(value.pos))

\* a '{' block '}' as parseIf, parseFor and the others read it
bracedBlockAt(p) ==
  LET open == expect(p, "{") IN
  IF ~open.ok THEN open ELSE
  LET body == production("parseBlock", <<open.pos>>) IN
  IF ~body.ok THEN body ELSE
  LET close == expect(body.pos, "}") IN
  IF ~close.ok THEN close ELSE Ok(body.val, close.pos)

\* alternate is undefined without an else; hasAlternate tells it from []
parseIf(p) ==
  LET kw == expect(p, "if") IN
  IF ~kw.ok THEN kw ELSE
  LET condition == production("parseExpression", <<kw.pos>>) IN
  IF ~condition.ok THEN condition ELSE
  LET consequent == production("bracedBlockAt", <<condition.pos>>) IN
  IF ~consequent.ok THEN consequent ELSE
  LET q == skipNewlines(consequent.pos)
      hasElse == check(q, "else")
      alternate == IF ~hasElse THEN Ok(<<>>, q)
                   ELSE IF check(q + 1, "if")
                        THEN LET nested == parseIf(q + 1)
                             IN IF nested.ok THEN Ok(<<nested.val>>, nested.pos)
                                ELSE nested
                        ELSE production("bracedBlockAt", <<q + 1>>) IN
  IF ~alternate.ok THEN alternate ELSE
  Ok([type |-> "IfStatement", condition |-> condition.val,
      consequent |-> consequent.val, alternate |-> alternate.val,
      hasAlternate |-> hasElse], alternate.pos)

parseFor(p) ==
  LET kw == expect(p, "for") IN
  IF ~kw.ok THEN kw ELSE
  LET variable == expect(kw.pos, "Identifier") IN
  IF ~variable.ok THEN variable ELSE
  LET in == expect(variable.pos, "in") IN
  IF ~in.ok THEN in ELSE
  LET iterable == production("parseExpression", <<in.pos>>) IN
  IF ~iterable.ok THEN iterable ELSE
  LET body == production("bracedBlockAt", <<iterable.pos>>) IN
  IF ~body.ok THEN body ELSE
  Ok([type |-> "ForStatement", variable |-> variable.val.value,
      iterable |-> iterable.val, body |-> body.val], body.pos)

\* an expression statement left unwrapped: what parseExpressionStatement is
\* not
parseExpressionBare(p) ==
  LET expr == production("parseExpression", <<p>>) IN
  IF ~expr.ok THEN expr ELSE Ok(expr.val, skipTerminator(expr.pos))

parseExpressionStatement(p) ==
  LET expr == production("parseExpression", <<p>>) IN
  IF ~expr.ok THEN expr ELSE
  Ok([type |-> "ExpressionStatement", expression |-> expr.val], skipTerminator(expr.pos))

parseStatement(p) ==
  IF p >= Len(tokens) THEN Fail(TypeErrorMessage, p)
  ELSE LET t == tokens[p + 1].type IN
       CASE t = "import" -> parseImport(p)
         [] t = "export" -> parseExport(p)
         [] t = "component" -> parseComponent(p)
         [] t = "fn" -> parseFunction(p)
         [] t = "let" -> parseVariable(p, FALSE)
         [] t = "var" -> parseVariable(p, TRUE)
         [] t = "state" -> parseState(p)
         [] t = "effect" -> parseEffect(p)
         [] t = "style" -> parseStyleDecl(p)
         [] t = "return" -> parseReturn(p)
         [] t = "if" -> parseIf(p)
         [] t = "for" -> parseFor(p)
         [] OTHER -> IF isUIElement(p) THEN parseUIElement(p)
                     ELSE parseExpressionStatement(p)

\* the loop of parseBlock from position p
blockLoop(p, statements) ==
  IF ~check(p, "}") /\ ~isAtEnd(p)
  THEN LET st == production("parseStatement", <<p>>) IN
       IF ~st.ok THEN st
       ELSE IF skipNewlines(st.pos) <= p THEN Fail(NoProgressMessage, p)
       ELSE blockLoop(skipNewlines(st.pos), Append(statements, st.val))
  ELSE Ok(statements, p)

parseBlock(p) == blockLoop(skipNewlines(p), <<>>)

----------------------------------------------------------------------------
(* Parser: expressions *)

Binary(op, left, right) ==
  [type |-> "BinaryExpr", operator |-> op, left |-> left, right |-> right]

\* the loop condition of parseComparison: '<' is an operator here only when
\* it does not start a UI element
isComparisonOperator(p) ==
  \/ (check(p, "<") /\ ~isUIElement(p))
  \/ check(p, ">") \/ check(p, "<=") \/ check(p, ">=")

\* the loop condition of the binary level: parseOr, parseAnd, parseEquality,
\* parseComparison, parseAddition, parseMultiplication
isOperatorOf(level, p) ==
  CASE level = "or" -> check(p, "||")
    [] level = "and" -> check(p, "&&")
    [] level = "equality" -> check(p, "==") \/ check(p, "!=")
    [] level = "comparison" -> isComparisonOperator(p)
    [] level = "addition" -> check(p, "+") \/ check(p, "-")
    [] level = "multiplication" -> check(p, "*") \/ check(p, "/") \/ check(p, "%")

\* the while loop of a binary level: left is the outcome of the operand
\* parsed so far; the operator token is consumed, the right operand parsed
\* and the node built to the left
binaryLoop(level, left) ==
  IF left.ok
  THEN IF isOperatorOf(level, left.pos)
       THEN LET right == production("operandOf", <<level, left.pos + 1>>) IN
            IF right.ok
            THEN binaryLoop(level, Ok(Binary(Str(tokens[left.pos + 1].value),
                                             left.val, right.val), right.pos))
            ELSE right
       ELSE left
  ELSE left

parseMultiplication(p) == binaryLoop("multiplication", parseUnary(p))

parseAddition(p) == binaryLoop("addition", parseMultiplication(p))

parseComparison(p) == binaryLoop("comparison", parseAddition(p))

parseEquality(p) == binaryLoop("equality", parseComparison(p))

parseAnd(p) == binaryLoop("and", parseEquality(p))

parseOr(p) == binaryLoop("or", parseAnd(p))

\* the right operand of a binary level is parsed one level up
operandOf(level, p) ==
  CASE level = "or" -> parseAnd(p)
    [] level = "and" -> parseEquality(p)
    [] level = "equality" -> parseComparison(p)
    [] level = "comparison" -> parseAddition(p)
    [] level = "addition" -> parseMultiplication(p)
    [] level = "multiplication" -> parseUnary(p)

\* parseTernary after its condition
ternaryAfter(condition) ==
  IF condition.ok
  THEN IF check(condition.pos, "Identifier") /\ tokens[condition.pos + 1].value = <<"?">>
       THEN LET consequent == production("parseExpression", <<condition.pos + 1>>) IN
            IF ~consequent.ok THEN consequent ELSE
            LET colon == expect(consequent.pos, ":") IN
            IF ~colon.ok THEN colon ELSE
            LET alternate == production("parseExpression", <<colon.pos>>) IN
            IF ~alternate.ok THEN alternate ELSE
            Ok([type |-> "ConditionalExpr", condition |-> condition.val,
                consequent |-> consequent.val, alternate |-> alternate.val],
               alternate.pos)
       ELSE condition
  ELSE condition

parseTernary(p) == ternaryAfter(parseOr(p))

\* parseAssignment after its left side
assignmentAfter(left) ==
  IF left.ok
  THEN IF check(left.pos, "=")
       THEN LET value == production("parseAssignment", <<left.pos + 1>>) IN
            IF ~value.ok THEN value ELSE
            Ok([type |-> "AssignExpr", target |-> left.val, value |-> value.val],
               value.pos)
       ELSE left
  ELSE left

parseAssignment(p) == assignmentAfter(parseTernary(p))

\* a loop that hangs the chain so far under the new stage's right side: what
\* parsePipe is not
pipeLoopRightFirst(left) ==
  IF left.ok
  THEN IF check(left.pos, "|>")
       THEN LET right == production("parseAssignment", <<left.pos + 1>>) IN
            IF right.ok
            THEN pipeLoop(Ok([type |-> "PipeExpr", left |-> right.val,
                              right |-> left.val], right.pos))
            ELSE right
       ELSE left
  ELSE left

\* the while loop of parsePipe: left is the outcome of the operand so far
pipeLoop(left) ==
  IF left.ok
  THEN IF check(left.pos, "|>")
       THEN LET right == production("parseAssignment", <<left.pos + 1>>) IN
            IF right.ok
            THEN pipeLoop(Ok([type |-> "PipeExpr", left |-> left.val,
                              right |-> right.val], right.pos))
            ELSE right
       ELSE left
  ELSE left

parsePipe(p) == pipeLoop(parseAssignment(p))

parseExpression(p) == parsePipe(p)

parseUnary(p) ==
  IF check(p, "!") \/ check(p, "-")
  THEN LET operand == parseUnary(p + 1) IN
       IF ~operand.ok THEN operand ELSE
       Ok([type |-> "UnaryExpr", operator |-> Str(tokens[p + 1].value),
           operand |-> operand.val], operand.pos)
  ELSE parseCallAndMember(p)

\* the argument loop of a call
argumentsLoop(p, args) ==
  IF check(p, ")") THEN Ok(args, p)
  ELSE LET arg == production("parseExpression", <<p>>) IN
       IF ~arg.ok THEN arg
       ELSE IF ~check(arg.pos, ",") THEN Ok(Append(args, arg.val), arg.pos)
       ELSE argumentsLoop(skipNewlines(arg.pos + 1), Append(args, arg.val))

\* the while (true) loop of parseCallAndMember: expr is the outcome of the
\* expression so far
postfixLoop(expr) ==
  IF expr.ok
  THEN IF check(expr.pos, "(")
       THEN LET args == production("argumentsLoop", <<skipNewlines(expr.pos + 1), <<>>>>) IN
            IF ~args.ok THEN args ELSE
            LET close == expect(args.pos, ")") IN
            IF ~close.ok THEN close ELSE
            postfixLoop(Ok([type |-> "CallExpr", callee |-> expr.val,
                            arguments |-> args.val], close.pos))
       ELSE IF check(expr.pos, ".")
       THEN LET prop == expect(expr.pos + 1, "Identifier") IN
            IF ~prop.ok THEN prop ELSE
            postfixLoop(Ok([type |-> "MemberExpr", object |-> expr.val,
                            property |-> prop.val.value, computed |-> FALSE,
                            index |-> NoNode], prop.pos))
       ELSE IF check(expr.pos, "[")
       THEN LET index == production("parseExpression", <<expr.pos + 1>>) IN
            IF ~index.ok THEN index ELSE
            LET close == expect(index.pos, "]") IN
            IF ~close.ok THEN close ELSE
            postfixLoop(Ok([type |-> "MemberExpr", object |-> expr.val,
                            property |-> <<>>, computed |-> TRUE,
                            index |-> index.val], close.pos))
       ELSE expr
  ELSE expr

parseCallAndMember(p) == postfixLoop(production("parsePrimary", <<p>>))

\* the body of an arrow function after '=>': a block or one expression;
\* bodyIsBlock is what Array.isArray(body) tells the code generator
arrowBodyAt(p, params) ==
  IF check(p, "{")
  THEN LET body == production("parseBlock", <<p + 1>>) IN
       IF ~body.ok THEN body ELSE
       LET close == expect(body.pos, "}") IN
       IF ~close.ok THEN close ELSE
       Ok([type |-> "ArrowFunction", params |-> params, body |-> body.val,
           bodyIsBlock |-> TRUE], close.pos)
  ELSE LET body == production("parseExpression", <<p>>) IN
       IF ~body.ok THEN body ELSE
       Ok([type |-> "ArrowFunction", params |-> params, body |-> body.val,
           bodyIsBlock |-> FALSE], body.pos)

parseArrowFunction(p) ==
  LET lparen == expect(p, "(") IN
  IF ~lparen.ok THEN lparen ELSE
  LET params == production("parseParams", <<lparen.pos>>) IN
  IF ~params.ok THEN params ELSE
  LET rparen == expect(params.pos, ")") IN
  IF ~rparen.ok THEN rparen ELSE
  LET arrow == expect(rparen.pos, "=>") IN
  IF ~arrow.ok THEN arrow ELSE arrowBodyAt(arrow.pos, params.val)

\* the element loop of an array literal
elementsLoop(p, elements) ==
  IF check(p, "]") THEN Ok(elements, p)
  ELSE LET e == production("parseExpression", <<p>>) IN
       IF ~e.ok THEN e
       ELSE IF skipNewlines(match(e.pos, ",")) <= p THEN Fail(NoProgressMessage, p)
       ELSE elementsLoop(skipNewlines(match(e.pos, ",")), Append(elements, e.val))

\* the property loop of an object literal
propertiesLoop(p, properties) ==
  IF check(p, "}") THEN Ok(properties, p)
  ELSE LET key == expect(p, "Identifier") IN
       IF ~key.ok THEN key ELSE
       LET colon == expect(key.pos, ":") IN
       IF ~colon.ok THEN colon ELSE
       LET value == production("parseExpression", <<colon.pos>>) IN
       IF ~value.ok THEN value ELSE
       propertiesLoop(skipNewlines(match(value.pos, ",")),
                      Append(properties, [key |-> key.val.value, value |-> value.val]))

UnexpectedTokenMessage(cur) ==
  <<"Unexpected token: ", cur.type, " (", Str(cur.value), ")">>

\* a single-parameter arrow function has a parameter with a name only
NameParam(name) == [name |-> name, typeAnnotation |-> <<>>, defaultValue |-> NoNode]

parsePrimary(p) ==
  IF check(p, "(") /\ isArrowFunction(p) THEN parseArrowFunction(p)
  ELSE IF check(p, "(")
  THEN LET expr == production("parseExpression", <<p + 1>>) IN
       IF ~expr.ok THEN expr ELSE
       LET close == expect(expr.pos, ")") IN
       IF ~close.ok THEN close ELSE Ok(expr.val, close.pos)
  ELSE IF check(p, "[")
  THEN LET elements == production("elementsLoop", <<skipNewlines(p + 1), <<>>>>) IN
       IF ~elements.ok THEN elements ELSE
       LET close == expect(elements.pos, "]") IN
       IF ~close.ok THEN close ELSE
       Ok([type |-> "ArrayLiteral", elements |-> elements.val], close.pos)
  ELSE IF check(p, "{") /\ isObjectLiteral(p)
  THEN LET properties == production("propertiesLoop", <<skipNewlines(p + 1), <<>>>>) IN
       IF ~properties.ok THEN properties ELSE
       LET close == expect(properties.pos, "}") IN
       IF ~close.ok THEN close ELSE
       Ok([type |-> "ObjectLiteral", properties |-> properties.val], close.pos)
  ELSE IF check(p, "Number")
  THEN Ok([type |-> "NumberLiteral", value |-> parseFloat(tokens[p + 1].value)], p + 1)
  ELSE IF check(p, "String")
  THEN Ok([type |-> "StringLiteral", value |-> tokens[p + 1].value], p + 1)
  ELSE IF check(p, "true") THEN Ok([type |-> "BooleanLiteral", value |-> TRUE], p + 1)
  ELSE IF check(p, "false") THEN Ok([type |-> "BooleanLiteral", value |-> FALSE], p + 1)
  ELSE IF check(p, "null") THEN Ok([type |-> "NullLiteral"], p + 1)
  ELSE IF check(p, "Identifier")
  THEN IF check(p + 1, "=>")
       THEN arrowBodyAt(p + 2, <<NameParam(tokens[p + 1].value)>>)
       ELSE Ok([type |-> "Identifier", name |-> tokens[p + 1].value], p + 1)
  ELSE IF p >= Len(tokens) THEN Fail(TypeErrorMessage, p)
  ELSE Fail(ParseErrorMessage(UnexpectedTokenMessage(tokens[p + 1]), p), p)

----------------------------------------------------------------------------
(* Parser: UI elements *)

\* the while (match(Minus)) loop of an attribute name: name-part-part
RECURSIVE attributeNameLoop(_, _)
attributeNameLoop(p, name) ==
  IF check(p, "-")
  THEN LET part == expectIdentifierOrKeyword(p + 1) IN
       IF ~part.ok THEN part
       ELSE attributeNameLoop(part.pos, name \o <<"-">> \o part.val)
  ELSE Ok(name, p)

attributeNameAt(p) ==
  IF check(p, "@")
  THEN LET name == expectIdentifierOrKeyword(p + 1) IN
       IF ~name.ok THEN name ELSE Ok(<<"@">> \o name.val, name.pos)
  ELSE LET name == expectIdentifierOrKeyword(p) IN
       IF ~name.ok THEN name ELSE attributeNameLoop(name.pos, name.val)

\* the optional "= value" of an attribute: null when there is none
attributeValueAt(p) ==
  IF check(p, "=")
  THEN IF check(p + 1, "{")
       THEN LET expr == production("parseExpression", <<p + 2>>) IN
            IF ~expr.ok THEN expr ELSE
            LET close == expect(expr.pos, "}") IN
            IF ~close.ok THEN close ELSE Ok(expr.val, close.pos)
       ELSE IF check(p + 1, "String")
            THEN Ok([type |-> "StringLiteral", value |-> tokens[p + 2].value], p + 2)
            ELSE production("parseExpression", <<p + 1>>)
  ELSE Ok(NullNode, p)

\* the attribute loop of parseUIElement: a component keeps the attributes
\* that have a value as props, and the others as attributes (which the
\* ComponentInstance node then does not carry)
attributesLoop(p, isComponent, attributes, props) ==
  IF ~check(p, ">") /\ ~check(p, "/") /\ ~isAtEnd(p)
  THEN LET q == skipNewlines(p) IN
       IF check(q, ">") \/ check(q, "/")
       THEN Ok([attributes |-> attributes, props |-> props], q) ELSE
       LET name == attributeNameAt(q) IN
       IF ~name.ok THEN name ELSE
       LET value == production("attributeValueAt", <<name.pos>>) IN
       IF ~value.ok THEN value ELSE
       LET attr == [name |-> name.val, value |-> value.val] IN
       IF isComponent /\ value.val # NullNode
       THEN attributesLoop(skipNewlines(value.pos), isComponent, attributes,
                           Append(props, attr))
       ELSE attributesLoop(skipNewlines(value.pos), isComponent,
                           Append(attributes, attr), props)
  ELSE Ok([attributes |-> attributes, props |-> props], p)

\* the tokens a text run continues over
TextTypes == {"Identifier", "Number", ".", ",", ":", "!"}

\* the while loop that gathers a text run, the pieces joined by one space
RECURSIVE textLoop(_, _)
textLoop(p, text) ==
  IF ~isAtEnd(p) /\ tokens[p + 1].type \in TextTypes /\ ~isClosingTag(p)
  THEN textLoop(p + 1, text \o <<" ">> \o tokens[p + 1].value)
  ELSE Ok(text, p)

\* a '{' ... '}' child: an if, a for, or an expression
bracedChildAt(p) ==
  LET q == skipNewlines(p + 1)
      child == IF check(q, "if") THEN production("parseIf", <<q>>)
               ELSE IF check(q, "for") THEN production("parseFor", <<q>>)
               ELSE LET expr == production("parseExpression", <<q>>) IN
                    IF ~expr.ok THEN expr
                    ELSE Ok([type |-> "UIExpression", expression |-> expr.val], expr.pos) IN
  IF ~child.ok THEN child ELSE
  LET close == expect(child.pos, "}") IN
  IF ~close.ok THEN close ELSE Ok(child.val, close.pos)

\* the children loop of parseUIElement
childrenLoop(p, children) ==
  IF isClosingTag(p) THEN Ok(children, p) ELSE
  LET q == skipNewlines(p) IN
  IF isClosingTag(q) THEN Ok(children, q) ELSE
  LET child == IF check(q, "{") THEN production("bracedChildAt", <<q>>)
               ELSE IF isUIElement(q) THEN production("parseUIElement", <<q>>)
               ELSE IF check(q, "String")
                    THEN Ok([type |-> "UIText", value |-> tokens[q + 1].value], q + 1)
               ELSE IF check(q, "Identifier") \/ check(q, "Number")
                    THEN LET text == textLoop(q + 1, tokens[q + 1].value)
                         IN Ok([type |-> "UIText", value |-> text.val], text.pos)
               ELSE Ok(NoNode, q) IN
  IF ~child.ok THEN child
  ELSE IF child.val = NoNode THEN Ok(children, q)
  ELSE IF child.pos <= p THEN Fail(NoProgressMessage, p)
  ELSE childrenLoop(child.pos, Append(children, child.val))

\* a test that takes a tag of one letter for an element's: what
\* parseUIElement's test is not
isComponentTagOfTwo(tag) == StartsWithUpper(tag) /\ Len(tag) > 1

\* the tag is a component's when its first character is upper-case
isComponentTag(tag) == StartsWithUpper(tag)

\* a message that names the opening tag only: what parseUIElement's is not
TagMismatchOpeningOnly(tag, closingTag) ==
  <<"Expected closing tag </", Str(tag), ">">>

TagMismatchMessage(tag, closingTag) ==
  <<"Expected closing tag </", Str(tag), ">, got </", Str(closingTag), ">">>

\* the node parseUIElement returns for the tag
UINode(tag, attrs, children, selfClosing) ==
  IF isComponentTag(tag)
  THEN [type |-> "ComponentInstance", name |-> tag, props |-> attrs.props,
        children |-> children, selfClosing |-> selfClosing]
  ELSE [type |-> "UIElement", tag |-> tag, attributes |-> attrs.attributes,
        children |-> children, selfClosing |-> selfClosing]

\* the closing tag </name> of parseUIElement after the children
closingTagAt(p, tag) ==
  LET lt == expect(p, "<") IN
  IF ~lt.ok THEN lt ELSE
  LET slash == expect(lt.pos, "/") IN
  IF ~slash.ok THEN slash ELSE
  LET closingTag == expect(slash.pos, "Identifier") IN
  IF ~closingTag.ok THEN closingTag ELSE
  IF closingTag.val.value # tag
  THEN Fail(ParseErrorMessage(TagMismatchMessage(tag, closingTag.val.value),
                              closingTag.pos), closingTag.pos)
  ELSE expect(closingTag.pos, ">")

parseUIElement(p) ==
  LET lt == expect(p, "<") IN
  IF ~lt.ok THEN lt ELSE
  LET tag == expect(lt.pos, "Identifier") IN
  IF ~tag.ok THEN tag ELSE
  LET attrs == production("attributesLoop", <<skipNewlines(tag.pos), isComponentTag(tag.val.value),
                              <<>>, <<>>>>) IN
  IF ~attrs.ok THEN attrs ELSE
  IF check(attrs.pos, "/")
  THEN LET gt == expect(attrs.pos + 1, ">") IN
       IF ~gt.ok THEN gt
       ELSE Ok(UINode(tag.val.value, attrs.val, <<>>, TRUE), gt.pos)
  ELSE LET gt == expect(attrs.pos, ">") IN
       IF ~gt.ok THEN gt ELSE
       LET children == production("childrenLoop", <<gt.pos, <<>>>>) IN
       IF ~children.ok THEN children ELSE
       LET close == closingTagAt(children.pos, tag.val.value) IN
       IF ~close.ok THEN close
       ELSE Ok(UINode(tag.val.value, attrs.val, children.val, FALSE), close.pos)

RECURSIVE parseLoop(_, _)
parseLoop(p, body) ==
  IF isAtEnd(p) THEN Ok(body, p) ELSE
  LET q == skipNewlines(p) IN
  IF isAtEnd(q) THEN Ok(body, q) ELSE
  LET st == production("parseStatement", <<q>>) IN
  IF ~st.ok THEN st
  ELSE IF skipNewlines(st.pos) <= p THEN Fail(NoProgressMessage, p)
  ELSE parseLoop(skipNewlines(st.pos), Append(body, st.val))

\* new Parser(tokens).parse()
parse ==
  LET body == production("parseLoop", <<0, <<>>>>) IN
  IF ~body.ok THEN body ELSE Ok([type |-> "Program", body |-> body.val], body.pos)

(* The methods of the parser call one another through production: the    *)
(* method called name, applied to the arguments a.                        *)
production(name, a) ==
  CASE name = "parseParams" -> parseParams(a[1])
    [] name = "bindingAt" -> bindingAt(a[1])
    [] name = "styleLoop" -> styleLoop(a[1], a[2])
    [] name = "bracedBlockAt" -> bracedBlockAt(a[1])
    [] name = "parseIf" -> parseIf(a[1])
    [] name = "parseFor" -> parseFor(a[1])
    [] name = "parseStatement" -> parseStatement(a[1])
    [] name = "parseBlock" -> parseBlock(a[1])
    [] name = "operandOf" -> operandOf(a[1], a[2])
    [] name = "parseAssignment" -> parseAssignment(a[1])
    [] name = "parseExpression" -> parseExpression(a[1])
    [] name = "argumentsLoop" -> argumentsLoop(a[1], a[2])
    [] name = "elementsLoop" -> elementsLoop(a[1], a[2])
    [] name = "propertiesLoop" -> propertiesLoop(a[1], a[2])
    [] name = "parsePrimary" -> parsePrimary(a[1])
    [] name = "attributeValueAt" -> attributeValueAt(a[1])
    [] name = "attributesLoop" -> attributesLoop(a[1], a[2], a[3], a[4])
    [] name = "bracedChildAt" -> bracedChildAt(a[1])
    [] name = "childrenLoop" -> childrenLoop(a[1], a[2])
    [] name = "parseUIElement" -> parseUIElement(a[1])
    [] name = "parseLoop" -> parseLoop(a[1], a[2])
    [] name = "parse" -> parse

\* the loop of parse from position p
    [] name = "parseLoop" -> parseLoop(a[1], a[2])
    [] name = "parse" -> parse

----------------------------------------------------------------------------
(* The sources of the pipeline specification *)

\* VariableDecl (language guide, 1. Variables):
\*   let name = "Lumina"
LetString ==
  <<"l","e","t"," ","n","a","m","e"," ","="," ","\"","L","u","m","i","n","a",
    "\"">>

\* VariableDecl (language guide, 1. Variables):
\*   var count = 0
VarNumber ==
  <<"v","a","r"," ","c","o","u","n","t"," ","="," ","0">>

\* VariableDecl (language guide, 1. Variables):
\*   let typed: Int = 42
LetTyped ==
  <<"l","e","t"," ","t","y","p","e","d",":"," ","I","n","t"," ","="," ","4",
    "2">>

\* FunctionDecl (language guide, 2. Functions):
\*   fn add(a: Int, b: Int) -> Int {
\*     return a + b
\*   }
FnAdd ==
  <<"f","n"," ","a","d","d","(","a",":"," ","I","n","t",","," ","b",":"," ",
    "I","n","t",")"," ","-",">"," ","I","n","t"," ","{","\n"," "," ","r","e",
    "t","u","r","n"," ","a"," ","+"," ","b","\n","}">>

\* VariableDecl (language guide, 2. Functions):
\*   let double = (x) => x * 2
LetArrow ==
  <<"l","e","t"," ","d","o","u","b","l","e"," ","="," ","(","x",")"," ","=",
    ">"," ","x"," ","*"," ","2">>

\* VariableDecl (language guide, 2. Functions):
\*   let greet = name => "Hello " + name
LetArrowBare ==
  <<"l","e","t"," ","g","r","e","e","t"," ","="," ","n","a","m","e"," ","=",
    ">"," ","\"","H","e","l","l","o"," ","\""," ","+"," ","n","a","m","e">>

\* ComponentDecl (the end-to-end scenario):
\*   component C(){ state n = 0 
\*    fn inc(){ n = n + 1 } 
\*    <div>{n}</div> }
ComponentC ==
  <<"c","o","m","p","o","n","e","n","t"," ","C","(",")","{"," ","s","t","a",
    "t","e"," ","n"," ","="," ","0"," ","\n"," ","f","n"," ","i","n","c","(",
    ")","{"," ","n"," ","="," ","n"," ","+"," ","1"," ","}"," ","\n"," ","<",
    "d","i","v",">","{","n","}","<","/","d","i","v",">"," ","}">>

\* ComponentDecl (module system guide):
\*   component Card(title: String) {
\*     <div class="card">
\*       <h1>{title}</h1>
\*       <Button/>
\*     </div>
\*   }
ComponentCard ==
  <<"c","o","m","p","o","n","e","n","t"," ","C","a","r","d","(","t","i","t",
    "l","e",":"," ","S","t","r","i","n","g",")"," ","{","\n"," "," ","<","d",
    "i","v"," ","c","l","a","s","s","=","\"","c","a","r","d","\"",">","\n",
    " "," "," "," ","<","h","1",">","{","t","i","t","l","e","}","<","/","h",
    "1",">","\n"," "," "," "," ","<","B","u","t","t","o","n","/",">","\n"," ",
    " ","<","/","d","i","v",">","\n","}">>

\* StateDecl (language guide, 4. Reactive State):
\*   state todos = []
StateArray ==
  <<"s","t","a","t","e"," ","t","o","d","o","s"," ","="," ","[","]">>

\* ExpressionStatement (language guide, 3. Components):
\*   count = count + 1
AssignCount ==
  <<"c","o","u","n","t"," ","="," ","c","o","u","n","t"," ","+"," ","1">>

\* UIElement (language guide, 5. UI Elements):
\*   <div class="container">
\*     <h1>"Hello World"</h1>
\*   </div>
DivHello ==
  <<"<","d","i","v"," ","c","l","a","s","s","=","\"","c","o","n","t","a","i",
    "n","e","r","\"",">","\n"," "," ","<","h","1",">","\"","H","e","l","l",
    "o"," ","W","o","r","l","d","\"","<","/","h","1",">","\n","<","/","d","i",
    "v",">">>

\* UIElement (language guide, 5. UI Elements):
\*   <input type="text" disabled />
InputSelfClosing ==
  <<"<","i","n","p","u","t"," ","t","y","p","e","=","\"","t","e","x","t","\"",
    " ","d","i","s","a","b","l","e","d"," ","/",">">>

\* ComponentInstance (types.ts, ComponentInstance):
\*   <Button text="Go" primary @click={go} />
ButtonInstance ==
  <<"<","B","u","t","t","o","n"," ","t","e","x","t","=","\"","G","o","\""," ",
    "p","r","i","m","a","r","y"," ","@","c","l","i","c","k","=","{","g","o",
    "}"," ","/",">">>

\* StyleDecl (language guide, 7. Style Declarations):
\*   style buttonStyle {
\*     padding: 12,
\*     borderRadius: 8,
\*     color: "white"
\*   }
StyleButton ==
  <<"s","t","y","l","e"," ","b","u","t","t","o","n","S","t","y","l","e"," ",
    "{","\n"," "," ","p","a","d","d","i","n","g",":"," ","1","2",",","\n"," ",
    " ","b","o","r","d","e","r","R","a","d","i","u","s",":"," ","8",",","\n",
    " "," ","c","o","l","o","r",":"," ","\"","w","h","i","t","e","\"","\n",
    "}">>

\* EffectDecl (language guide, 8. Effects):
\*   effect(count) {
\*     log("Count: " + count)
\*   }
EffectCount ==
  <<"e","f","f","e","c","t","(","c","o","u","n","t",")"," ","{","\n"," "," ",
    "l","o","g","(","\"","C","o","u","n","t",":"," ","\""," ","+"," ","c","o",
    "u","n","t",")","\n","}">>

\* IfStatement (language guide, 9. Control Flow):
\*   if x > 10 {
\*   } else if x > 5 {
\*   } else {
\*   }
IfElseChain ==
  <<"i","f"," ","x"," ",">"," ","1","0"," ","{","\n","}"," ","e","l","s","e",
    " ","i","f"," ","x"," ",">"," ","5"," ","{","\n","}"," ","e","l","s","e",
    " ","{","\n","}">>

\* IfStatement (the statement separation example):
\*   if inputValue != "" { count = count + 1 ; inputValue = "" }
IfTwoAssignments ==
  <<"i","f"," ","i","n","p","u","t","V","a","l","u","e"," ","!","="," ","\"",
  "\""," ","{"," ","c","o","u","n","t"," ","="," ","c","o","u","n","t"," ",
  "+"," ","1"," ",";"," ","i","n","p","u","t","V","a","l","u","e"," ","="," ",
  "\"","\""," ","}">>

\* ForStatement (language guide, 9. Control Flow):
\*   for item in list {
\*     log(item)
\*   }
ForList ==
  <<"f","o","r"," ","i","t","e","m"," ","i","n"," ","l","i","s","t"," ","{",
    "\n"," "," ","l","o","g","(","i","t","e","m",")","\n","}">>

\* VariableDecl (language guide, 10. Pipe Operator):
\*   let result = data |> transform |> render
LetPipe ==
  <<"l","e","t"," ","r","e","s","u","l","t"," ","="," ","d","a","t","a"," ",
    "|",">"," ","t","r","a","n","s","f","o","r","m"," ","|",">"," ","r","e",
    "n","d","e","r">>

\* ImportDecl (types.ts, ImportDecl):
\*   import { Button, Card } from "./components.lum"
ImportNames ==
  <<"i","m","p","o","r","t"," ","{"," ","B","u","t","t","o","n",","," ","C",
    "a","r","d"," ","}"," ","f","r","o","m"," ","\"",".","/","c","o","m","p",
    "o","n","e","n","t","s",".","l","u","m","\"">>

\* ExportDecl (types.ts, ExportDecl):
\*   export { Button, Card }
ExportNames ==
  <<"e","x","p","o","r","t"," ","{"," ","B","u","t","t","o","n",","," ","C",
    "a","r","d"," ","}">>

\* ExportDecl (parser, parseExport):
\*   export component B() { <p>"b"</p> }
ExportComponent ==
  <<"e","x","p","o","r","t"," ","c","o","m","p","o","n","e","n","t"," ","B",
    "(",")"," ","{"," ","<","p",">","\"","b","\"","<","/","p",">"," ","}">>

\* ComponentDecl (language guide, 7. Style Declarations, in a component):
\*   component S() {
\*     style box { padding: 4 }
\*     <div></div>
\*   }
ComponentStyled ==
  <<"c","o","m","p","o","n","e","n","t"," ","S","(",")"," ","{","\n"," "," ",
    "s","t","y","l","e"," ","b","o","x"," ","{"," ","p","a","d","d","i","n",
    "g",":"," ","4"," ","}","\n"," "," ","<","d","i","v",">","<","/","d","i",
    "v",">","\n","}">>

\* StyleDecl (parser, parseStyleDecl: the name is optional):
\*   style { fontSize: 14 }
StyleUnnamed ==
  <<"s","t","y","l","e"," ","{"," ","f","o","n","t","S","i","z","e",":"," ",
    "1","4"," ","}">>

\* ComponentInstance (types.ts, ComponentInstance):
\*   <C />
InstanceC ==
  <<"<","C"," ","/",">">>

\* ExpressionStatement (code generator, genExpr: a call of a component):
\*   C()
CallC ==
  <<"C","(",")">>

\* ComponentDecl (parser, parseUIElement: an event attribute without a value):
\*   component K() { <button @click /> }
ComponentBareEvent ==
  <<"c","o","m","p","o","n","e","n","t"," ","K","(",")"," ","{"," ","<","b",
    "u","t","t","o","n"," ","@","c","l","i","c","k"," ","/",">"," ","}">>

\* the statements a source of the model is made of, each with the node
\* type the documents give it
Statements ==
  << [text |-> LetString, kind |-> "VariableDecl"],
     [text |-> VarNumber, kind |-> "VariableDecl"],
     [text |-> LetTyped, kind |-> "VariableDecl"],
     [text |-> FnAdd, kind |-> "FunctionDecl"],
     [text |-> LetArrow, kind |-> "VariableDecl"],
     [text |-> LetArrowBare, kind |-> "VariableDecl"],
     [text |-> ComponentC, kind |-> "ComponentDecl"],
     [text |-> ComponentCard, kind |-> "ComponentDecl"],
     [text |-> StateArray, kind |-> "StateDecl"],
     [text |-> AssignCount, kind |-> "ExpressionStatement"],
     [text |-> DivHello, kind |-> "UIElement"],
     [text |-> InputSelfClosing, kind |-> "UIElement"],
     [text |-> ButtonInstance, kind |-> "ComponentInstance"],
     [text |-> StyleButton, kind |-> "StyleDecl"],
     [text |-> EffectCount, kind |-> "EffectDecl"],
     [text |-> IfElseChain, kind |-> "IfStatement"],
     [text |-> IfTwoAssignments, kind |-> "IfStatement"],
     [text |-> ForList, kind |-> "ForStatement"],
     [text |-> LetPipe, kind |-> "VariableDecl"],
     [text |-> ImportNames, kind |-> "ImportDecl"],
     [text |-> ExportNames, kind |-> "ExportDecl"],
     [text |-> ExportComponent, kind |-> "ExportDecl"],
     [text |-> ComponentStyled, kind |-> "ComponentDecl"],
     [text |-> StyleUnnamed, kind |-> "StyleDecl"],
     [text |-> InstanceC, kind |-> "ComponentInstance"],
     [text |-> CallC, kind |-> "ExpressionStatement"],
     [text |-> ComponentBareEvent, kind |-> "ComponentDecl"] >>

\* the statements short enough to stand beside any other one
Fillers == {i \in 1..Len(Statements) : Len(Statements[i].text) <= 13}

\* what separates two top-level statements
Separators == {<<"\n">>, <<";", " ">>}

\* the sequences of statements a source is made of: one statement, or up to
\* MaxStatements of them of which at most one is no filler
UnitSeqs ==
  {us \in UNION {[1..n -> 1..Len(Statements)] : n \in 1..MaxStatements} :
     Cardinality({i \in DOMAIN us : us[i] \notin Fillers}) <= 1}

\* the text of the statements us joined by sep
RECURSIVE Program(_, _)
Program(us, sep) ==
  IF Len(us) = 0 THEN <<>>
  ELSE IF Len(us) = 1 THEN Statements[us[1]].text
  ELSE Statements[us[1]].text \o sep \o Program(Tail(us), sep)

----------------------------------------------------------------------------
(* TypeChecker: types, environments *)

TInt == [kind |-> "Int"]
TString == [kind |-> "String"]
TBool == [kind |-> "Bool"]
TNull == [kind |-> "Null"]
TAny == [kind |-> "Any"]
TVoid == [kind |-> "Void"]
TArray(elementType) == [kind |-> "Array", elementType |-> elementType]
TObject(properties) == [kind |-> "Object", properties |-> properties]
TFunction(params, returnType) ==
  [kind |-> "Function", params |-> params, returnType |-> returnType]
TComponent(props) == [kind |-> "Component", props |-> props]

\* a Map is the sequence of its entries in insertion order
MapHas(m, k) == \E i \in 1..Len(m) : m[i].key = k
MapGet(m, k) == m[CHOOSE i \in 1..Len(m) : m[i].key = k].value
MapSet(m, k, v) ==
  IF MapHas(m, k)
  THEN [i \in 1..Len(m) |-> IF m[i].key = k THEN [key |-> k, value |-> v] ELSE m[i]]
  ELSE Append(m, [key |-> k, value |-> v])

\* parseTypeAnnotation: an absent or empty annotation and every name but
\* the four below are Any
parseTypeAnnotation(annotation) ==
  CASE annotation = <<"I", "n", "t">> -> TInt
    [] annotation = <<"S", "t", "r", "i", "n", "g">> -> TString
    [] annotation = <<"B", "o", "o", "l">> -> TBool
    [] annotation = <<"V", "o", "i", "d">> -> TVoid
    [] OTHER -> TAny

RECURSIVE isCompatible(_, _)

\* a comparison in which Any fits as the expected type only: what
\* isCompatible is not
isCompatibleOneWay(actual, expected) ==
  IF expected.kind = "Any" THEN TRUE
  ELSE IF expected.kind = "Void" \/ actual.kind = "Void" THEN TRUE
  ELSE IF actual.kind = expected.kind
       THEN IF actual.kind = "Array" /\ expected.kind = "Array"
            THEN isCompatible(actual.elementType, expected.elementType)
            ELSE TRUE
       ELSE FALSE

isCompatible(actual, expected) ==
  IF expected.kind = "Any" \/ actual.kind = "Any" THEN TRUE
  ELSE IF expected.kind = "Void" \/ actual.kind = "Void" THEN TRUE
  ELSE IF actual.kind = expected.kind
       THEN IF actual.kind = "Array" /\ expected.kind = "Array"
            THEN isCompatible(actual.elementType, expected.elementType)
            ELSE TRUE
       ELSE FALSE

RECURSIVE typeToString(_)
typeToString(type) ==
  IF type.kind = "Array" THEN "Array<" \o typeToString(type.elementType) \o ">"
  ELSE type.kind

\* the checker while it runs: the scopes from the global one to the current
\* one, this.components, this.errors, the type the last checkNode returned, the top-level
\* nodes the second pass has called checkNode on, and whether it is still
\* running (ok) or has thrown
CheckState(env, components) ==
  [ok |-> TRUE, env |-> env, components |-> components, errors |-> <<>>,
   type |-> TVoid, visited |-> <<>>]

Returned(st, type) == [st EXCEPT !.type = type]
Thrown(st) == [st EXCEPT !.ok = FALSE]

\* lookup from scope i of the chain outwards: the type found, or undefined
RECURSIVE lookupFrom(_, _, _)
lookupFrom(name, env, i) ==
  IF i = 0 THEN NoNode
  ELSE IF MapHas(env[i], name) THEN [type |-> "found", found |-> MapGet(env[i], name)]
  ELSE lookupFrom(name, env, i - 1)

\* a lookup that takes a name no scope binds for a name of type Any: what
\* lookup is not
lookupLenient(name, env) ==
  IF lookupFrom(name, env, Len(env)).type = "undefined"
  THEN [type |-> "found", found |-> TAny]
  ELSE lookupFrom(name, env, Len(env))

lookup(name, env) == lookupFrom(name, env, Len(env))

addError(st, message) ==
  [st EXCEPT !.errors = Append(@, <<"[Type Error] ">> \o message)]

\* env.bindings.set(name, type) on the current scope
bind(st, name, type) ==
  [st EXCEPT !.env[Len(st.env)] = MapSet(@, name, type)]

\* the bindings of a declaration's parameters
RECURSIVE paramBindings(_, _, _)
paramBindings(params, i, m) ==
  IF i > Len(params) THEN m
  ELSE paramBindings(params, i + 1,
                     MapSet(m, params[i].name,
                            parseTypeAnnotation(params[i].typeAnnotation)))

\* { parent: env, bindings } becomes the current scope
enterScope(st, bindings) == [st EXCEPT !.env = Append(@, bindings)]
\* the local scope is left behind when the case returns
leaveScope(st) == [st EXCEPT !.env = SubSeq(@, 1, Len(@) - 1)]

ArithmeticOperators == {"+", "-", "*", "/", "%"}
ComparisonOperators == {"==", "!=", "<", ">", "<=", ">="}
LogicalOperators == {"&&", "||"}

----------------------------------------------------------------------------
(* TypeChecker: checkNode *)

RECURSIVE checkNode(_, _), checkAll(_, _, _), functionBodyLoop(_, _, _),
          argumentsCheckLoop(_, _, _, _), propsCheckLoop(_, _, _, _),
          objectLiteralLoop(_, _, _, _)

\* for (const stmt of nodes) this.checkNode(stmt, env), from index i
checkAll(nodes, i, st) ==
  IF ~st.ok \/ i > Len(nodes) THEN st
  ELSE checkAll(nodes, i + 1, checkNode(nodes[i], st))

\* the declared type against the initializer of a VariableDecl or StateDecl
checkDeclaration(node, word, st) ==
  LET value == checkNode(node.value, st) IN
  IF ~value.ok THEN value ELSE
  LET valueType == value.type
      declaredType == parseTypeAnnotation(node.typeAnnotation)
      after == IF ~isCompatible(valueType, declaredType)
               THEN addError(value, <<word, " ", Str(node.name), " declared as ",
                                      typeToString(declaredType),
                                      " but initialized with ",
                                      typeToString(valueType)>>)
               ELSE value
  IN Returned(bind(after, node.name,
                   IF declaredType.kind = "Any" THEN valueType ELSE declaredType),
              TVoid)

\* the body loop of the FunctionDecl case, from statement i
functionBodyLoop(node, i, st) ==
  IF ~st.ok \/ i > Len(node.body) THEN st
  ELSE LET stmt == node.body[i] IN
       IF stmt.type = "ReturnStatement"
       THEN IF stmt.value.type # "undefined"
            THEN LET value == checkNode(stmt.value, st) IN
                 IF ~value.ok THEN value ELSE
                 LET returnType == value.type
                     expectedType == parseTypeAnnotation(node.returnType)
                 IN functionBodyLoop(node, i + 1,
                      IF ~isCompatible(returnType, expectedType)
                      THEN addError(value, <<"Function ", Str(node.name), " returns ",
                                             typeToString(returnType), " but expected ",
                                             typeToString(expectedType)>>)
                      ELSE value)
            ELSE functionBodyLoop(node, i + 1, st)
       ELSE functionBodyLoop(node, i + 1, checkNode(stmt, st))

\* a typing of l op r that asks isCompatible whether an operand will do:
\* what the BinaryExpr case is not
binaryTypeCompatible(operator, leftType, rightType, st) ==
  IF operator = "+" /\ (leftType.kind = "String" \/ rightType.kind = "String")
  THEN Returned(st, TString)
  ELSE IF operator = "+" /\ leftType.kind = "Int" /\ rightType.kind = "Int"
  THEN Returned(st, TInt)
  ELSE IF operator \in ArithmeticOperators \ {"+"}
  THEN Returned(IF ~isCompatible(leftType, TInt) \/ ~isCompatible(rightType, TInt)
                THEN addError(st, <<"Operator ", operator, " requires Int operands">>)
                ELSE st, TInt)
  ELSE IF operator \in ComparisonOperators THEN Returned(st, TBool)
  ELSE IF operator \in LogicalOperators
  THEN Returned(IF ~isCompatible(leftType, TBool) \/ ~isCompatible(rightType, TBool)
                THEN addError(st, <<"Operator ", operator, " requires Bool operands">>)
                ELSE st, TBool)
  ELSE Returned(st, TAny)

\* the BinaryExpr case once both operands are checked
binaryType(operator, leftType, rightType, st) ==
  IF operator = "+" /\ (leftType.kind = "String" \/ rightType.kind = "String")
  THEN Returned(st, TString)
  ELSE IF operator = "+" /\ leftType.kind = "Int" /\ rightType.kind = "Int"
  THEN Returned(st, TInt)
  ELSE IF operator \in ArithmeticOperators \ {"+"}
  THEN Returned(IF leftType.kind # "Int" \/ rightType.kind # "Int"
                THEN addError(st, <<"Operator ", operator, " requires Int operands">>)
                ELSE st, TInt)
  ELSE IF operator \in ComparisonOperators THEN Returned(st, TBool)
  ELSE IF operator \in LogicalOperators
  THEN Returned(IF leftType.kind # "Bool" \/ rightType.kind # "Bool"
                THEN addError(st, <<"Operator ", operator, " requires Bool operands">>)
                ELSE st, TBool)
  ELSE Returned(st, TAny)

\* the UnaryExpr case once the operand is checked
unaryType(operator, operandType, st) ==
  IF operator = "!"
  THEN Returned(IF operandType.kind # "Bool"
                THEN addError(st, <<"Operator ! requires Bool operand">>)
                ELSE st, TBool)
  ELSE IF operator = "-"
  THEN Returned(IF operandType.kind # "Int"
                THEN addError(st, <<"Operator - requires Int operand">>)
                ELSE st, TInt)
  ELSE Returned(st, TAny)

\* the argument loop of the CallExpr case, from argument i (0-based)
argumentsCheckLoop(node, calleeType, i, st) ==
  IF ~st.ok \/ ~(i < Len(node.arguments) /\ i < Len(calleeType.params)) THEN st
  ELSE LET arg == checkNode(node.arguments[i + 1], st) IN
       IF ~arg.ok THEN arg
       ELSE argumentsCheckLoop(node, calleeType, i + 1,
              IF ~isCompatible(arg.type, calleeType.params[i + 1])
              THEN addError(arg, <<"Argument ", ToString(i + 1), " expects ",
                                   typeToString(calleeType.params[i + 1]),
                                   " but got ", typeToString(arg.type)>>)
              ELSE arg)

\* node.props.find(p => p.name === propName): its index, 0 when none
findProp(props, propName) ==
  IF \E j \in 1..Len(props) : props[j].name = propName
  THEN CHOOSE j \in 1..Len(props) :
         props[j].name = propName /\ \A k \in 1..(j - 1) : props[k].name # propName
  ELSE 0

\* the loop of the ComponentInstance case over the component's props
propsCheckLoop(node, props, i, st) ==
  IF ~st.ok \/ i > Len(props) THEN st
  ELSE LET provided == findProp(node.props, props[i].key) IN
       IF provided = 0 THEN propsCheckLoop(node, props, i + 1, st)
       ELSE LET value == checkNode(node.props[provided].value, st) IN
            IF ~value.ok THEN value
            ELSE propsCheckLoop(node, props, i + 1,
                   IF ~isCompatible(value.type, props[i].value)
                   THEN addError(value, <<"Component ", Str(node.name), " prop ",
                                          Str(props[i].key), " expects ",
                                          typeToString(props[i].value), " but got ",
                                          typeToString(value.type)>>)
                   ELSE value)

\* the loop of the ObjectLiteral case, from property i
objectLiteralLoop(node, i, properties, st) ==
  IF ~st.ok THEN st
  ELSE IF i > Len(node.properties) THEN Returned(st, TObject(properties))
  ELSE LET value == checkNode(node.properties[i].value, st) IN
       IF ~value.ok THEN value
       ELSE objectLiteralLoop(node, i + 1,
                              MapSet(properties, node.properties[i].key, value.type),
                              value)

\* if (node.alternate) { for (const stmt of node.alternate) ... }
checkAlternate(node, st) ==
  IF node.hasAlternate THEN checkAll(node.alternate, 1, st) ELSE st

checkNode(node, st) ==
  CASE node.type \in {"undefined", "null"} -> Thrown(st)
    [] node.type = "Program" -> Returned(checkAll(node.body, 1, st), TVoid)
    [] node.type = "ComponentDecl" ->
         LET body == checkAll(node.body, 1,
                              enterScope(st, paramBindings(node.params, 1, <<>>)))
         IN IF ~body.ok THEN body ELSE Returned(leaveScope(body), TVoid)
    [] node.type = "FunctionDecl" ->
         LET body == functionBodyLoop(node, 1,
                       enterScope(st, paramBindings(node.params, 1, <<>>)))
         IN IF ~body.ok THEN body ELSE Returned(leaveScope(body), TVoid)
    [] node.type = "VariableDecl" -> checkDeclaration(node, "Variable", st)
    [] node.type = "StateDecl" -> checkDeclaration(node, "State", st)
    [] node.type = "AssignExpr" ->
         LET target == checkNode(node.target, st) IN
         IF ~target.ok THEN target ELSE
         LET value == checkNode(node.value, target) IN
         IF ~value.ok THEN value
         ELSE IF ~isCompatible(value.type, target.type)
         THEN Returned(addError(value, <<"Cannot assign ", typeToString(value.type),
                                         " to ", typeToString(target.type)>>),
                       value.type)
         ELSE value
    [] node.type = "BinaryExpr" ->
         LET left == checkNode(node.left, st) IN
         IF ~left.ok THEN left ELSE
         LET right == checkNode(node.right, left) IN
         IF ~right.ok THEN right
         ELSE binaryType(node.operator, left.type, right.type, right)
    [] node.type = "UnaryExpr" ->
         LET operand == checkNode(node.operand, st) IN
         IF ~operand.ok THEN operand
         ELSE unaryType(node.operator, operand.type, operand)
    [] node.type = "CallExpr" ->
         LET callee == checkNode(node.callee, st) IN
         IF ~callee.ok THEN callee
         ELSE IF callee.type.kind = "Function"
         THEN LET calleeType == callee.type
                  counted ==
                    IF Len(node.arguments) # Len(calleeType.params)
                    THEN addError(callee,
                           <<"Function expects ", ToString(Len(calleeType.params)),
                             " arguments but got ", ToString(Len(node.arguments))>>)
                    ELSE callee
                  args == argumentsCheckLoop(node, calleeType, 0, counted)
              IN IF ~args.ok THEN args ELSE Returned(args, calleeType.returnType)
         ELSE Returned(callee, TAny)
    [] node.type = "MemberExpr" ->
         LET object == checkNode(node.object, st) IN
         IF ~object.ok THEN object
         ELSE IF object.type.kind = "Object"
                 /\ MapHas(object.type.properties, node.property)
         THEN Returned(object, MapGet(object.type.properties, node.property))
         ELSE Returned(object, TAny)
    [] node.type = "ComponentInstance" ->
         IF ~MapHas(st.components, node.name)
         THEN Returned(addError(st, <<"Unknown component: ", Str(node.name)>>), TAny)
         ELSE Returned(propsCheckLoop(node, MapGet(st.components, node.name).props,
                                      1, st), TAny)
    [] node.type = "Identifier" ->
         LET type == lookup(node.name, st.env) IN
         IF type.type = "undefined"
         THEN Returned(addError(st, <<"Undefined variable: ", Str(node.name)>>), TAny)
         ELSE Returned(st, type.found)
    [] node.type = "NumberLiteral" -> Returned(st, TInt)
    [] node.type = "StringLiteral" -> Returned(st, TString)
    [] node.type = "BooleanLiteral" -> Returned(st, TBool)
    [] node.type = "NullLiteral" -> Returned(st, TNull)
    [] node.type = "ArrayLiteral" ->
         IF Len(node.elements) = 0 THEN Returned(st, TArray(TAny))
         ELSE LET first == checkNode(node.elements[1], st) IN
              IF ~first.ok THEN first ELSE Returned(first, TArray(first.type))
    [] node.type = "ObjectLiteral" -> objectLiteralLoop(node, 1, <<>>, st)
    [] node.type = "IfStatement" ->
         LET cond == checkNode(node.condition, st) IN
         IF ~cond.ok THEN cond ELSE
         LET consequent ==
               checkAll(node.consequent, 1,
                        IF cond.type.kind # "Bool"
                        THEN addError(cond, <<"If condition must be Bool but got ",
                                              typeToString(cond.type)>>)
                        ELSE cond)
         IN IF ~consequent.ok THEN consequent
            ELSE Returned(checkAlternate(node, consequent), TVoid)
    [] node.type = "ForStatement" ->
         LET body == checkAll(node.body, 1,
                              enterScope(st, MapSet(<<>>, node.variable, TAny)))
         IN IF ~body.ok THEN body ELSE Returned(leaveScope(body), TVoid)
    [] node.type = "ExpressionStatement" ->
         Returned(checkNode(node.expression, st), TVoid)
    [] node.type = "UIElement" -> Returned(checkAll(node.children, 1, st), TAny)
    [] node.type = "UIText" -> Returned(st, TAny)
    [] node.type = "UIExpression" -> Returned(checkNode(node.expression, st), TAny)
    [] OTHER -> Returned(st, TAny)

\* the first pass of check: the signatures of the top-level components and
\* functions, from node i
RECURSIVE firstPass(_, _, _)

\* a first pass that collects no signature: what the first pass is not
firstPassNothing(body, i, st) == st

firstPass(body, i, st) ==
  IF i > Len(body) THEN st
  ELSE LET node == body[i] IN
       IF node.type = "ComponentDecl"
       THEN LET props == paramBindings(node.params, 1, <<>>) IN
            firstPass(body, i + 1,
                      bind([st EXCEPT !.components =
                                        MapSet(@, node.name, [props |-> props])],
                           node.name, TComponent(props)))
       ELSE IF node.type = "FunctionDecl"
       THEN firstPass(body, i + 1,
                      bind(st, node.name,
                           TFunction([j \in 1..Len(node.params) |->
                                        parseTypeAnnotation(node.params[j].typeAnnotation)],
                                     parseTypeAnnotation(node.returnType))))
       ELSE firstPass(body, i + 1, st)

RECURSIVE secondPass(_, _, _)

\* a second pass that the first diagnostic ends: what check is not
secondPassUntilError(body, i, st) ==
  IF ~st.ok \/ i > Len(body) \/ st.errors # <<>> THEN st
  ELSE secondPass(body, i + 1,
                  checkNode(body[i], [st EXCEPT !.visited = Append(@, i)]))

\* the second pass of check: checkNode on every top-level node, from node i
secondPass(body, i, st) ==
  IF ~st.ok \/ i > Len(body) THEN st
  ELSE secondPass(body, i + 1,
                  checkNode(body[i], [st EXCEPT !.visited = Append(@, i)]))

\* what check hands back: success is errors.length === 0
checkResult(st) ==
  [returned |-> st.ok, success |-> Len(st.errors) = 0, errors |-> st.errors,
   visited |-> st.visited, components |-> st.components]

\* TypeChecker.check(program) of a checker whose components map is components
\* (the parser's check has the name already)
checkProgram(program, components) ==
  checkResult(secondPass(program.body, 1,
                firstPass(program.body, 1, CheckState(<<<<>>>>, components))))

----------------------------------------------------------------------------
(* CodeGenerator: strings *)

\* The code the generator emits is a sequence of pieces; a line feed is
\* always a piece of its own.  Threw in a sequence marks a string that was
\* never finished: a TypeError was thrown while it was being built.
Threw == "<TypeError>"
Throws(code) == \E i \in 1..Len(code) : code[i] = Threw

\* Array.prototype.join: the items with sep between them
RECURSIVE Join(_, _)
Join(items, sep) ==
  IF Len(items) = 0 THEN <<>>
  ELSE IF Len(items) = 1 THEN items[1]
  ELSE items[1] \o sep \o Join(Tail(items), sep)

\* JSON.stringify of one character of a string
JSONEscape(c) ==
  CASE c = "\"" -> "\\\""
    [] c = "\\" -> "\\\\"
    [] c = "\n" -> "\\n"
    [] c = "\t" -> "\\t"
    [] c = "\r" -> "\\r"
    [] OTHER -> c

\* JSON.stringify of a string: quoted, its characters escaped
JSONStringify(value) ==
  "\"" \o Str([i \in 1..Len(value) |-> JSONEscape(value[i])]) \o "\""

\* String(n) of a number literal's value
NumberToString(value) ==
  IF value.frac = <<>> THEN ToString(value.int)
  ELSE ToString(value.int) \o "." \o Str(value.frac)

UpperLetters == <<"A", "B", "C", "D", "E", "F", "G", "H", "I", "J", "K", "L", "M",
                  "N", "O", "P", "Q", "R", "S", "T", "U", "V", "W", "X", "Y", "Z">>
LowerLetters == <<"a", "b", "c", "d", "e", "f", "g", "h", "i", "j", "k", "l", "m",
                  "n", "o", "p", "q", "r", "s", "t", "u", "v", "w", "x", "y", "z">>

\* String.prototype.toLowerCase on one character
toLowerCase(c) ==
  IF c \in Upper THEN LowerLetters[CHOOSE i \in 1..26 : UpperLetters[i] = c] ELSE c

\* camelToKebab: a '-' before each capital, then everything in lower case
camelToKebab(str) ==
  Str(Flatten([i \in 1..Len(str) |->
                 IF str[i] \in Upper THEN <<"-", toLowerCase(str[i])>>
                 ELSE <<toLowerCase(str[i])>>]))

\* the names of a parameter list, joined by ", "
paramNames(params) == Join([i \in 1..Len(params) |-> <<Str(params[i].name)>>], <<", ">>)

----------------------------------------------------------------------------
(* CodeGenerator: expressions and statements *)

RECURSIVE generator(_, _)
RECURSIVE genExpr(_, _), genStatement(_, _), genFunction(_, _), genIf(_, _)

\* the statements of a block, one per line
genBody(body, components) ==
  Join([i \in 1..Len(body) |-> generator("genStatement", <<body[i], components>>)], <<"\n">>)

\* the expressions of a list, joined by ", "
genList(nodes, components) ==
  Join([i \in 1..Len(nodes) |-> generator("genExpr", <<nodes[i], components>>)], <<", ">>)

\* this.components.has(callee): components is the sequence of the names set
componentsHas(components, callee) ==
  \E i \in 1..Len(components) : Str(components[i]) = Text(callee)

genExpr(node, components) ==
  CASE node.type \in {"undefined", "null"} -> <<Threw>>
    [] node.type = "NumberLiteral" -> <<NumberToString(node.value)>>
    [] node.type = "StringLiteral" -> <<JSONStringify(node.value)>>
    [] node.type = "BooleanLiteral" -> <<IF node.value THEN "true" ELSE "false">>
    [] node.type = "NullLiteral" -> <<"null">>
    [] node.type = "Identifier" -> <<Str(node.name)>>
    [] node.type = "BinaryExpr" ->
         <<"(">> \o genExpr(node.left, components) \o <<" ", node.operator, " ">>
                 \o genExpr(node.right, components) \o <<")">>
    [] node.type = "UnaryExpr" -> <<node.operator>> \o genExpr(node.operand, components)
    [] node.type = "CallExpr" ->
         LET callee == genExpr(node.callee, components)
             args == generator("genList", <<node.arguments, components>>)
         IN IF componentsHas(components, callee)
            THEN callee \o <<"({">> \o args \o <<"})">>
            ELSE callee \o <<"(">> \o args \o <<")">>
    [] node.type = "MemberExpr" ->
         IF node.computed
         THEN genExpr(node.object, components) \o <<"[">>
                \o genExpr(node.index, components) \o <<"]">>
         ELSE genExpr(node.object, components) \o <<".", Str(node.property)>>
    [] node.type = "AssignExpr" ->
         genExpr(node.target, components) \o <<" = ">> \o genExpr(node.value, components)
    [] node.type = "ArrowFunction" ->
         IF node.bodyIsBlock
         THEN <<"(">> \o paramNames(node.params) \o <<") => {", "\n">>
                \o generator("genBody", <<node.body, components>>) \o <<"\n", "}">>
         ELSE <<"(">> \o paramNames(node.params) \o <<") => ">>
                \o genExpr(node.body, components)
    [] node.type = "ArrayLiteral" ->
         <<"[">> \o generator("genList", <<node.elements, components>>) \o <<"]">>
    [] node.type = "ObjectLiteral" ->
         <<"{">> \o Join([i \in 1..Len(node.properties) |->
                            <<Str(node.properties[i].key), ": ">>
                              \o genExpr(node.properties[i].value, components)],
                         <<", ">>)
                 \o <<"}">>
    [] node.type = "ConditionalExpr" ->
         <<"(">> \o genExpr(node.condition, components) \o <<" ? ">>
                 \o genExpr(node.consequent, components) \o <<" : ">>
                 \o genExpr(node.alternate, components) \o <<")">>
    [] node.type = "PipeExpr" ->
         genExpr(node.right, components) \o <<"(">>
           \o genExpr(node.left, components) \o <<")">>
    [] node.type = "TemplateLiteral" ->
         \* a part is a string, [type |-> "string", value |-> ...], or a node
         <<Backquote>>
           \o Flatten([i \in 1..Len(node.parts) |->
                         IF node.parts[i].type = "string"
                         THEN <<Str(node.parts[i].value)>>
                         ELSE <<"${">> \o genExpr(node.parts[i], components) \o <<"}">>])
           \o <<Backquote>>
    [] OTHER -> <<"/* unknown: ", node.type, " */">>

genVariable(node, components) ==
  <<IF node.mutable THEN "let" ELSE "const", " ", Str(node.name), " = ">>
    \o generator("genExpr", <<node.value, components>>) \o <<";">>

\* one parameter of genFunction's list
genParam(p, components) ==
  IF p.defaultValue.type # "undefined"
  THEN <<Str(p.name), " = ">> \o generator("genExpr", <<p.defaultValue, components>>)
  ELSE <<Str(p.name)>>

genFunction(node, components) ==
  <<"  function ", Str(node.name), "(">>
    \o Join([i \in 1..Len(node.params) |-> generator("genParam", <<node.params[i], components>>)],
            <<", ">>)
    \o <<") {", "\n">>
    \o Join([i \in 1..Len(node.body) |->
               <<"    ">> \o generator("genStatement", <<node.body[i], components>>)], <<"\n">>)
    \o <<"\n", "  }">>

genIf(node, components) ==
  <<"if (">> \o generator("genExpr", <<node.condition, components>>) \o <<") {", "\n">>
    \o generator("genBody", <<node.consequent, components>>) \o <<"\n", "}">>
    \o (IF node.hasAlternate
        THEN <<" else {", "\n">> \o generator("genBody", <<node.alternate, components>>) \o <<"\n", "}">>
        ELSE <<>>)

genForStatement(node, components) ==
  <<"for (const ", Str(node.variable), " of ">>
    \o generator("genExpr", <<node.iterable, components>>) \o <<") {", "\n">>
    \o generator("genBody", <<node.body, components>>) \o <<"\n", "}">>

genStatement(node, components) ==
  CASE node.type \in {"undefined", "null"} -> <<Threw>>
    [] node.type = "VariableDecl" -> generator("genVariable", <<node, components>>)
    [] node.type = "FunctionDecl" -> generator("genFunction", <<node, components>>)
    [] node.type = "ReturnStatement" ->
         IF node.value.type # "undefined"
         THEN <<"return ">> \o generator("genExpr", <<node.value, components>>) \o <<";">>
         ELSE <<"return;">>
    [] node.type = "IfStatement" -> generator("genIf", <<node, components>>)
    [] node.type = "ForStatement" -> generator("genForStatement", <<node, components>>)
    [] node.type = "ExpressionStatement" ->
         generator("genExpr", <<node.expression, components>>) \o <<";">>
    [] node.type = "BlockStatement" ->
         <<"{", "\n">> \o generator("genBody", <<node.body, components>>) \o <<"\n", "}">>
    [] OTHER -> generator("genExpr", <<node, components>>) \o <<";">>

----------------------------------------------------------------------------
(* CodeGenerator: UI elements *)

\* what Math.random().toString(36).slice(2, 7) can be: up to five digits of
\* base 36, fewer when the fraction is short
RandomSuffixes == {"4fzyo", "i"}

\* the generator's source of random numbers: the stream rnd of suffixes and
\* the number drawn so far; a draw past the end of the stream starts it again
Randomness(rnd) == [rnd |-> rnd, drawn |-> 0]
draw(g) == g.rnd[(g.drawn % Len(g.rnd)) + 1]
drawn(g) == [g EXCEPT !.drawn = @ + 1]

\* the code of genUIElement for one attribute
genAttribute(attr, varName, components) ==
  IF attr.name[1] = "@"
  THEN <<"    ", varName, ".addEventListener('", Str(Tail(attr.name)),
         "', function(e) { ">>
         \o generator("genExpr", <<attr.value, components>>) \o <<"(e); __render(); });", "\n">>
  ELSE IF attr.value.type # "null"
  THEN LET val == generator("genExpr", <<attr.value, components>>) IN
       IF Str(attr.name) = "class"
       THEN <<"    ", varName, ".className = ">> \o val \o <<";", "\n">>
       ELSE IF Str(attr.name) = "style" /\ attr.value.type = "ObjectLiteral"
       THEN <<"    Object.assign(", varName, ".style, ">> \o val \o <<");", "\n">>
       ELSE <<"    ", varName, ".setAttribute('", Str(attr.name), "', ">>
              \o val \o <<");", "\n">>
  ELSE <<"    ", varName, ".setAttribute('", Str(attr.name), "', '');", "\n">>

\* appendChild of a text node holding a literal text
appendText(pad, parentVar, value) ==
  <<pad, parentVar, ".appendChild(document.createTextNode(",
    JSONStringify(value), "));", "\n">>

\* appendChild of a text node holding String(expression)
appendExpression(pad, parentVar, expression, components) ==
  <<pad, parentVar, ".appendChild(document.createTextNode(String(">>
    \o generator("genExpr", <<expression, components>>) \o <<")));", "\n">>

\* a generated child element that is left where its own code put it
appendElementToFragmentOnly(pad, parentVar, child) ==
  <<pad>> \o child.code \o <<"\n">>

\* a generated child element, then its appendChild; childCode.match(/const
\* (\w+)/)[1] is the child's own variable, the first const of its code
appendElement(pad, parentVar, child) ==
  <<pad>> \o child.code \o <<"\n", pad, parentVar, ".appendChild(", child.varName,
                              ");", "\n">>

RECURSIVE genUIElement(_, _, _), genUIChildren(_, _, _, _, _),
          genUIBranch(_, _, _, _, _, _), genUIConditional(_, _, _, _),
          genUILoop(_, _, _, _)

\* the loops of genUIConditional and genUILoop over the statements of a
\* branch, from statement i: only the node types in kinds emit code
genUIBranch(nodes, i, parentVar, kinds, components, g) ==
  IF i > Len(nodes) THEN [code |-> <<>>, g |-> g]
  ELSE LET child == nodes[i] IN
       IF child.type = "UIElement" /\ "UIElement" \in kinds
       THEN LET el == generator("genUIElement", <<child, components, g>>)
                rest == genUIBranch(nodes, i + 1, parentVar, kinds, components, el.g)
            IN [code |-> generator("appendElement", <<"      ", parentVar, el>>) \o rest.code,
                g |-> rest.g]
       ELSE LET rest == genUIBranch(nodes, i + 1, parentVar, kinds, components, g)
                code == IF child.type = "UIExpression" /\ "UIExpression" \in kinds
                        THEN generator("appendExpression", <<"      ", parentVar, child.expression,
                                              components>>)
                        ELSE IF child.type = "UIText" /\ "UIText" \in kinds
                        THEN appendText("      ", parentVar, child.value)
                        ELSE <<>>
            IN [code |-> code \o rest.code, g |-> rest.g]

genUIConditional(node, parentVar, components, g) ==
  LET consequent == generator("genUIBranch", <<node.consequent, 1, parentVar,
                                {"UIElement", "UIExpression", "UIText"}, components, g>>)
      alternate == IF node.hasAlternate
                   THEN generator("genUIBranch", <<node.alternate, 1, parentVar,
                                    {"UIElement", "UIText"}, components, consequent.g>>)
                   ELSE [code |-> <<>>, g |-> consequent.g]
  IN [code |-> <<"    if (">> \o generator("genExpr", <<node.condition, components>>) \o <<") {", "\n">>
                 \o consequent.code \o <<"    }">>
                 \o (IF node.hasAlternate
                     THEN <<" else {", "\n">> \o alternate.code \o <<"    }">>
                     ELSE <<>>)
                 \o <<"\n">>,
      g |-> alternate.g]

genUILoop(node, parentVar, components, g) ==
  LET body == generator("genUIBranch", <<node.body, 1, parentVar, {"UIElement", "UIExpression"},
                          components, g>>)
  IN [code |-> <<"    for (const ", Str(node.variable), " of ">>
                 \o generator("genExpr", <<node.iterable, components>>) \o <<") {", "\n">>
                 \o body.code \o <<"    }", "\n">>,
      g |-> body.g]

\* the loop of genUIElement over the children, from child i
genUIChildren(children, i, varName, components, g) ==
  IF i > Len(children) THEN [code |-> <<>>, g |-> g]
  ELSE LET child == children[i]
           this ==
             CASE child.type = "UIText" ->
                    [code |-> appendText("    ", varName, child.value), g |-> g]
               [] child.type = "UIExpression" ->
                    [code |-> generator("appendExpression", <<"    ", varName, child.expression,
                                               components>>), g |-> g]
               [] child.type = "UIElement" ->
                    LET el == generator("genUIElement", <<child, components, g>>)
                    IN [code |-> generator("appendElement", <<"    ", varName, el>>), g |-> el.g]
               [] child.type = "IfStatement" ->
                    generator("genUIConditional", <<child, varName, components, g>>)
               [] child.type = "ForStatement" ->
                    generator("genUILoop", <<child, varName, components, g>>)
               [] OTHER -> [code |-> <<>>, g |-> g]
           rest == genUIChildren(children, i + 1, varName, components, this.g)
       IN [code |-> this.code \o rest.code, g |-> rest.g]

genUIElement(node, components, g) ==
  LET varName == "__e" \o draw(g)
      children == generator("genUIChildren", <<node.children, 1, varName, components, drawn(g)>>)
  IN [code |-> <<"const ", varName, " = document.createElement('", Str(node.tag),
                 "');", "\n">>
                 \o Flatten([i \in 1..Len(node.attributes) |->
                               generator("genAttribute", <<node.attributes[i], varName, components>>)])
                 \o children.code
                 \o <<"    __fragment.appendChild(", varName, ");">>,
      varName |-> varName,
      g |-> children.g]

----------------------------------------------------------------------------
(* CodeGenerator: components, styles, the page *)

genStateDecl(node, components) ==
  <<"  let ", Str(node.name), " = ">> \o generator("genExpr", <<node.value, components>>)
    \o <<";", "\n",
         "  Object.defineProperty(__state, '", Str(node.name), "', {", "\n",
         "    get() { return ", Str(node.name), "; },", "\n",
         "    set(v) { ", Str(node.name), " = v; __render(); }", "\n",
         "  });">>

genEffect(node, components) ==
  <<"      // effect", "\n", "      (function() { ">>
    \o generator("genBody", <<node.body, components>>) \o <<" })();">>

genStyleValue(node, components) ==
  IF node.type = "NumberLiteral" THEN <<NumberToString(node.value), "px">>
  ELSE IF node.type = "StringLiteral" THEN node.value
  ELSE generator("genExpr", <<node, components>>)

\* node.name || 'default'
styleName(node) == IF node.name = <<>> THEN "default" ELSE Str(node.name)

genStyleDecl(node, components) ==
  <<".", "lumina-" \o styleName(node), " {", "\n">>
    \o Join([i \in 1..Len(node.properties) |->
               <<"  ", camelToKebab(node.properties[i].key), ": ">>
                 \o generator("genStyleValue", <<node.properties[i].value, components>>) \o <<";">>],
            <<"\n">>)
    \o <<"\n", "}">>

\* this.styles.set(name, className) of genStyleDecl
setStyle(styles, node) ==
  MapSet(styles, styleName(node), "lumina-" \o styleName(node))

\* a TypeError has come out of one of the calls genComponent's loop made
componentThrew(acc) ==
  \/ Throws(Flatten(acc.states)) \/ Throws(Flatten(acc.effects))
  \/ Throws(Flatten(acc.functions)) \/ Throws(Flatten(acc.styles))
  \/ Throws(acc.renderBody)

\* the loop of genComponent over the body, from child i; acc holds the five
\* collections, this.styles and the random numbers left
RECURSIVE componentLoop(_, _, _, _)
componentLoop(node, i, acc, components) ==
  IF i > Len(node.body) \/ componentThrew(acc) THEN acc
  ELSE LET child == node.body[i] IN
       componentLoop(node, i + 1,
         CASE child.type = "StateDecl" ->
                [acc EXCEPT !.states = Append(@, generator("genStateDecl", <<child, components>>))]
           [] child.type = "EffectDecl" ->
                [acc EXCEPT !.effects = Append(@, generator("genEffect", <<child, components>>))]
           [] child.type = "FunctionDecl" ->
                [acc EXCEPT !.functions = Append(@, generator("genFunction", <<child, components>>))]
           [] child.type = "StyleDecl" ->
                [acc EXCEPT !.styles = Append(@, generator("genStyleDecl", <<child, components>>)),
                            !.styleMap = setStyle(@, child)]
           [] child.type = "UIElement" ->
                LET el == generator("genUIElement", <<child, components, acc.g>>)
                IN [acc EXCEPT !.renderBody = el.code, !.g = el.g]
           [] child.type = "VariableDecl" ->
                [acc EXCEPT !.functions = Append(@, generator("genVariable", <<child, components>>))]
           [] OTHER ->
                [acc EXCEPT !.functions = Append(@, generator("genStatement", <<child, components>>))],
         components)

\* the parameters of genComponent that have a default value
defaultParams(node, components) ==
  LET withDefault == SelectSeq(node.params, LAMBDA p : p.defaultValue.type # "undefined")
  IN Join([i \in 1..Len(withDefault) |->
             <<"  ", Str(withDefault[i].name), " = ", Str(withDefault[i].name),
               " !== undefined ? ", Str(withDefault[i].name), " : ">>
               \o generator("genExpr", <<withDefault[i].defaultValue, components>>) \o <<";">>],
          <<"\n">>)

\* genComponent: the code, this.styles and the random numbers left
genComponent(node, components, styles, g) ==
  LET acc == generator("componentLoop", <<node, 1,
                           [states |-> <<>>, effects |-> <<>>, functions |-> <<>>,
                            styles |-> <<>>, renderBody |-> <<>>,
                            styleMap |-> styles, g |-> g],
                           components>>)
      name == Str(node.name)
  IN [code |->
        <<"function ", name, "(props) {", "\n",
          "  const __el = document.createElement('div');", "\n",
          "  __el.setAttribute('data-component', '", name, "');", "\n",
          "  const __state = {};", "\n",
          "  let __mounted = false;", "\n",
          "\n",
          "  ">>
        \o Join([i \in 1..Len(node.params) |->
                   <<"let ", Str(node.params[i].name), " = props.",
                     Str(node.params[i].name), ";">>], <<"\n", "  ">>)
        \o <<"\n">> \o generator("defaultParams", <<node, components>>) \o <<"\n", "\n">>
        \o Join(acc.states, <<"\n">>) \o <<"\n", "\n">>
        \o Join(acc.functions, <<"\n", "\n">>) \o <<"\n", "\n">>
        \o <<"  function __render() {", "\n",
             "    __el.innerHTML = '';", "\n",
             "    const __fragment = document.createDocumentFragment();", "\n",
             "    ">>
        \o acc.renderBody
        \o <<"\n",
             "    __el.appendChild(__fragment);", "\n",
             "    if (!__mounted) {", "\n",
             "      __mounted = true;", "\n">>
        \o Join(acc.effects, <<"\n">>)
        \o <<"\n",
             "    }", "\n",
             "  }", "\n",
             "\n",
             "  __render();", "\n",
             "  return __el;", "\n",
             "}">>,
      styles |-> acc.styleMap,
      g |-> acc.g]

wrapRuntime(js) ==
  <<"// Lumina Runtime v0.1", "\n", "// Generated by Lumina Transpiler", "\n", "\n">>
    \o js

\* css.split('\n').map(l => '    ' + l).join('\n')
indentLines(css) ==
  <<"    ">> \o Flatten([i \in 1..Len(css) |->
                           IF css[i] = "\n" THEN <<"\n", "    ">> ELSE <<css[i]>>])

generateHTML(js, css, components) ==
  <<"<!DOCTYPE html>", "\n",
    "<html lang=\"en\">", "\n",
    "<head>", "\n",
    "  <meta charset=\"UTF-8\">", "\n",
    "  <meta name=\"viewport\" content=\"width=device-width, initial-scale=1.0\">", "\n",
    "  <title>Lumina App</title>", "\n",
    "  <style>", "\n",
    "    * { margin: 0; padding: 0; box-sizing: border-box; }", "\n",
    "    body { font-family: -apple-system, BlinkMacSystemFont, 'Segoe UI', sans-serif; }",
    "\n">>
  \o (IF Text(css) # "" THEN indentLines(css) ELSE <<>>)
  \o <<"\n",
       "  </style>", "\n",
       "</head>", "\n",
       "<body>", "\n",
       "  <div id=\"app\"></div>", "\n",
       "  <script>", "\n">>
  \o js
  \o <<"\n", "\n", "// Auto-mount", "\n">>
  \o (IF Len(components) > 0 /\ components[1] # <<>>
      THEN <<"document.getElementById('app').appendChild(", Str(components[1]),
             "({}));">>
      ELSE <<>>)
  \o <<"\n", "  </script>", "\n", "</body>", "\n", "</html>">>

\* this.components.set(name, true): the keys in insertion order
setComponent(components, name) ==
  IF \E i \in 1..Len(components) : components[i] = name THEN components
  ELSE Append(components, name)

\* the loop of generate over program.body, from node i
RECURSIVE generateLoop(_, _, _)
generateLoop(body, i, acc) ==
  IF i > Len(body) \/ Throws(Flatten(acc.jsChunks)) \/ Throws(Flatten(acc.cssChunks))
  THEN acc
  ELSE LET node == body[i] IN
       generateLoop(body, i + 1,
         CASE node.type = "ComponentDecl" ->
                LET components == setComponent(acc.components, node.name)
                    c == generator("genComponent", <<node, components, acc.styles, acc.g>>)
                IN [acc EXCEPT !.components = components,
                               !.jsChunks = Append(@, c.code),
                               !.styles = c.styles, !.g = c.g]
           [] node.type = "StyleDecl" ->
                [acc EXCEPT !.cssChunks = Append(@, generator("genStyleDecl", <<node, acc.components>>)),
                            !.styles = setStyle(@, node)]
           [] node.type = "FunctionDecl" ->
                [acc EXCEPT !.jsChunks = Append(@, generator("genFunction", <<node, acc.components>>))]
           [] node.type = "VariableDecl" ->
                [acc EXCEPT !.jsChunks = Append(@, generator("genVariable", <<node, acc.components>>))]
           [] OTHER ->
                [acc EXCEPT !.jsChunks = Append(@, generator("genStatement", <<node, acc.components>>))])

\* CodeGenerator.generate(program) of a generator whose maps are components
\* and styles, with the random numbers rnd; returned is FALSE when a
\* TypeError came out of it
generate(program, components, styles, rnd) ==
  LET acc == generator("generateLoop", <<program.body, 1,
                          [jsChunks |-> <<>>, cssChunks |-> <<>>,
                           components |-> components, styles |-> styles,
                           g |-> Randomness(rnd)]>>)
      js == wrapRuntime(Join(acc.jsChunks, <<"\n", "\n">>))
      css == Join(acc.cssChunks, <<"\n", "\n">>)
      html == generator("generateHTML", <<js, css, acc.components>>)
  IN IF Throws(js) \/ Throws(css)
     THEN [returned |-> FALSE, components |-> acc.components, styles |-> acc.styles]
     ELSE [returned |-> TRUE, html |-> html, js |-> js, css |-> css,
           components |-> acc.components, styles |-> acc.styles]

(* The methods of the generator call one another through generator: the  *)
(* method called name, applied to the arguments a.                        *)
generator(name, a) ==
  CASE name = "genBody" -> genBody(a[1], a[2])
    [] name = "genList" -> genList(a[1], a[2])
    [] name = "genExpr" -> genExpr(a[1], a[2])
    [] name = "genVariable" -> genVariable(a[1], a[2])
    [] name = "genParam" -> genParam(a[1], a[2])
    [] name = "genFunction" -> genFunction(a[1], a[2])
    [] name = "genIf" -> genIf(a[1], a[2])
    [] name = "genForStatement" -> genForStatement(a[1], a[2])
    [] name = "genStatement" -> genStatement(a[1], a[2])
    [] name = "genAttribute" -> genAttribute(a[1], a[2], a[3])
    [] name = "appendExpression" -> appendExpression(a[1], a[2], a[3], a[4])
    [] name = "appendElement" -> appendElement(a[1], a[2], a[3])
    [] name = "genUIBranch" -> genUIBranch(a[1], a[2], a[3], a[4], a[5], a[6])
    [] name = "genUIConditional" -> genUIConditional(a[1], a[2], a[3], a[4])
    [] name = "genUILoop" -> genUILoop(a[1], a[2], a[3], a[4])
    [] name = "genUIChildren" -> genUIChildren(a[1], a[2], a[3], a[4], a[5])
    [] name = "genUIElement" -> genUIElement(a[1], a[2], a[3])
    [] name = "genStateDecl" -> genStateDecl(a[1], a[2])
    [] name = "genEffect" -> genEffect(a[1], a[2])
    [] name = "genStyleValue" -> genStyleValue(a[1], a[2])
    [] name = "genStyleDecl" -> genStyleDecl(a[1], a[2])
    [] name = "componentLoop" -> componentLoop(a[1], a[2], a[3], a[4])
    [] name = "defaultParams" -> defaultParams(a[1], a[2])
    [] name = "genComponent" -> genComponent(a[1], a[2], a[3], a[4])
    [] name = "generateHTML" -> generateHTML(a[1], a[2], a[3])
    [] name = "generateLoop" -> generateLoop(a[1], a[2], a[3])
    [] name = "generate" -> generate(a[1], a[2], a[3], a[4])

----------------------------------------------------------------------------
(* The browser: the document and the statements of a lowered render body  *)

\* the nodes made during a render, the children of each in order, the
\* children of __fragment and those of __el; a node is known by its index
NewDocument == [nodes |-> <<>>, kids |-> <<>>, fragment |-> <<>>, el |-> <<>>]

\* __fragment as the parent of appendChild
FragmentNode == 0

\* document.createElement(tag) and document.createTextNode(text): the new
\* node is the last of doc.nodes and has no parent
createNode(doc, tag) ==
  [doc EXCEPT !.nodes = Append(@, [tag |-> tag]), !.kids = Append(@, <<>>)]

Without(seq, id) == SelectSeq(seq, LAMBDA x : x # id)

\* parent.appendChild(id): a node that has a parent is taken from it first
appendChild(doc, parent, id) ==
  LET detached == [doc EXCEPT !.kids = <<>> \o [k \in DOMAIN @ |-> Without(@[k], id)],
                              !.fragment = Without(@, id),
                              !.el = Without(@, id)]
  IN IF parent = FragmentNode
     THEN [detached EXCEPT !.fragment = Append(@, id)]
     ELSE [detached EXCEPT !.kids[parent] = Append(@, id)]

\* __el.appendChild(__fragment): the fragment's children move into __el
appendFragment(doc) == [doc EXCEPT !.el = @ \o doc.fragment, !.fragment = <<>>]

\* the least index from i on that is in found, Len(code) + 1 if there is none
firstIndex(code, i, found) ==
  LET from == {j \in found : j >= i}
  IN IF from = {} THEN Max(i, Len(code) + 1)
     ELSE CHOOSE j \in from : \A k \in from : j <= k

\* the first index from i on at which code holds piece
indexOf(code, i, piece) ==
  firstIndex(code, i, {j \in DOMAIN code : code[j] = piece})

\* the piece at j, "" outside the code
pieceAt(code, j) == IF j \in DOMAIN code THEN code[j] ELSE ""

\* how many blocks opened from start on are still open at j
depthAt(code, start, j) ==
  Cardinality({k \in start..(j - 1) : code[k] \in {") {", " else {"}})
    - Cardinality({k \in start..(j - 1) : code[k] = "    }"})

\* the index of the "    }" that closes the block whose body starts at start,
\* Len(code) + 1 for the body of __render itself
blockEnd(code, start) ==
  firstIndex(code, start,
             {j \in DOMAIN code : j >= start /\ code[j] = "    }"
                                   /\ depthAt(code, start, j) = 0})

\* what follows the variable in the statements genUIElement and its loops
\* emit on an element
ElementStatements ==
  {".appendChild(document.createTextNode(",
   ".appendChild(document.createTextNode(String(",
   ".appendChild(", ".addEventListener('", ".className = ", ".setAttribute('"}

\* a statement of a render body starts at j
statementStarts(code, j) ==
  \/ code[j] \in {"    __fragment.appendChild(", "    if (", "    for (const ",
                  "    Object.assign("}
  \/ /\ code[j] = "const "
     /\ j = 1 \/ pieceAt(code, j - 1) \in {"    ", "      "}
  \/ /\ pieceAt(code, j - 1) \in {"    ", "      "}
     /\ pieceAt(code, j + 1) \in ElementStatements

\* the indices at which the statements of the block whose body starts at
\* start begin, in order; the statements of the blocks inside it are their own
statementsOf(code, start) ==
  LET end == blockEnd(code, start)
      own == {j \in start..(end - 1) :
                statementStarts(code, j) /\ depthAt(code, start, j) = 0}
  IN [k \in 1..Cardinality(own) |->
        CHOOSE j \in own : Cardinality({m \in own : m < j}) = k - 1]

\* the names the block whose body starts at start declares with const, in
\* order
blockDeclarations(code, start) ==
  LET consts == SelectSeq(statementsOf(code, start), LAMBDA j : code[j] = "const ")
  IN [k \in DOMAIN consts |-> code[consts[k] + 1]]

\* the script does not compile: some block declares a const twice
redeclares(code) ==
  \E start \in {1} \cup {i + 1 : i \in {j \in DOMAIN code : code[j] \in {") {", " else {"}}} :
    LET names == blockDeclarations(code, start)
    IN \E m, n \in DOMAIN names : m < n /\ names[m] = names[n]

\* a const that is declared in the block and not yet initialised
Uninitialised == -1

\* the bindings on entry to the block whose body starts at start
enterBlock(env, code, start) ==
  LET names == blockDeclarations(code, start)
      RECURSIVE hoist(_, _)
      hoist(e, n) == IF n > Len(names) THEN e
                     ELSE hoist(MapSet(e, names[n], Uninitialised), n + 1)
  IN hoist(env, 1)

\* node b is node a or is below it
RECURSIVE contains(_, _, _)
contains(doc, a, b) ==
  a = b \/ \E k \in 1..Len(doc.kids[a]) : contains(doc, doc.kids[a][k], b)

\* the script while a render body runs: the document, the const bindings in
\* scope, the listeners added, and "ok" or the error thrown
ScriptState(doc, code) ==
  [doc |-> doc, env |-> enterBlock(<<>>, code, 1), listeners |-> <<>>,
   status |-> "ok"]

\* the steps of the browser call one another through browser
RECURSIVE browser(_, _)

\* the statements of code that start at starts[lo], ..., starts[hi], one
\* after the other
execStatements(code, starts, lo, hi, st, choices) ==
  IF lo > hi THEN st
  ELSE IF lo = hi THEN browser("execStatement", <<code, starts[lo], st, choices>>)
  ELSE LET mid == (lo + hi) \div 2
           first == browser("execStatements", <<code, starts, lo, mid, st, choices>>)
       IN browser("execStatements", <<code, starts, mid + 1, hi, first, choices>>)

\* a block: its const bindings end with it
execBlock(code, start, st, choices) ==
  LET starts == statementsOf(code, start)
      entered == [st EXCEPT !.env = enterBlock(@, code, start)]
      inner == browser("execStatements", <<code, starts, 1, Len(starts), entered, choices>>)
  IN [inner EXCEPT !.env = st.env]

\* for (const x of items) { ... }: the body once for each of n items
execTimes(code, start, n, st, choices) ==
  IF n = 0 \/ st.status # "ok" THEN st
  ELSE LET once == browser("execBlock", <<code, start, st, choices>>)
       IN browser("execTimes", <<code, start, n - 1, once, choices>>)

\* the statement of a lowered render body that starts at piece i
execStatement(code, i, st, choices) ==
  IF st.status # "ok" THEN st
  ELSE
  LET piece == code[i]
      next == pieceAt(code, i + 1)
      bound(name) == MapHas(st.env, name) /\ MapGet(st.env, name) # Uninitialised
      node(name) == MapGet(st.env, name)
      failed(what) == [st EXCEPT !.status = what]
  IN
  \* const x = document.createElement('tag');
  CASE piece = "const " ->
         LET doc == createNode(st.doc, code[i + 3]) IN
         [st EXCEPT !.doc = doc, !.env = MapSet(@, code[i + 1], Len(doc.nodes))]
    \* __fragment.appendChild(x);
    [] piece = "    __fragment.appendChild(" ->
         IF ~bound(code[i + 1]) THEN failed("ReferenceError")
         ELSE [st EXCEPT !.doc = appendChild(@, FragmentNode, node(code[i + 1]))]
    \* if (cond) { ... } else { ... }
    [] piece = "    if (" ->
         LET body == indexOf(code, i, ") {") + 1
             close == blockEnd(code, body)
         IN IF choices.cond THEN browser("execBlock", <<code, body, st, choices>>)
            ELSE IF pieceAt(code, close + 1) = " else {"
            THEN browser("execBlock", <<code, close + 2, st, choices>>)
            ELSE st
    \* for (const x of items) { ... }
    [] piece = "    for (const " ->
         browser("execTimes", <<code, indexOf(code, i, ") {") + 1, choices.items, st, choices>>)
    \* x.appendChild(document.createTextNode("text"));
    \* x.appendChild(document.createTextNode(String(expression)));
    [] next \in {".appendChild(document.createTextNode(",
                 ".appendChild(document.createTextNode(String("} ->
         IF ~bound(piece) THEN failed("ReferenceError")
         ELSE LET doc == createNode(st.doc, "#text") IN
              [st EXCEPT !.doc = appendChild(doc, node(piece), Len(doc.nodes))]
    \* x.appendChild(y);  y cannot hold x
    [] next = ".appendChild(" ->
         IF ~bound(piece) \/ ~bound(code[i + 2]) THEN failed("ReferenceError")
         ELSE IF contains(st.doc, node(code[i + 2]), node(piece))
         THEN failed("HierarchyRequestError")
         ELSE [st EXCEPT !.doc = appendChild(@, node(piece), node(code[i + 2]))]
    \* x.addEventListener('event', function(e) { handler(e); __render(); });
    [] next = ".addEventListener('" ->
         IF ~bound(piece) THEN failed("ReferenceError")
         ELSE LET end == indexOf(code, i, "(e); __render(); });") IN
              [st EXCEPT !.listeners = Append(@, [node |-> node(piece),
                                                  event |-> code[i + 2],
                                                  handler |-> SubSeq(code, i + 4, end - 1)])]
    \* x.className = value;  x.setAttribute('name', value);
    \* Object.assign(x.style, value);
    [] OTHER -> st

\* the whole render body, run on the document doc
execBody(code, doc, choices) ==
  LET starts == statementsOf(code, 1)
      st == ScriptState(doc, code)
  IN browser("execStatements", <<code, starts, 1, Len(starts), st, choices>>)

----------------------------------------------------------------------------
(* The browser: the function lowered from a component                      *)

\* the deepest chain of calls of nested functions that is followed
MaxCallDepth == 2

\* the collections genComponent's loop fills for the component node, with
\* the random numbers rnd: the code __render and the closures are made of
lowerComponent(node, rnd) ==
  generator("componentLoop", <<node, 1,
              [states |-> <<>>, effects |-> <<>>, functions |-> <<>>,
               styles |-> <<>>, renderBody |-> <<>>,
               styleMap |-> <<>>, g |-> Randomness(rnd)],
              <<node.name>>>>)

\* the bindings genStateDecl declares with let
stateNames(c) == {c.states[k][2] : k \in DOMAIN c.states}

\* the nested functions genFunction declares, and the body of one of them
functionNames(c) ==
  {c.functions[k][2] : k \in {j \in DOMAIN c.functions : c.functions[j][1] = "  function "}}

functionBody(c, name) ==
  LET f == c.functions[CHOOSE k \in DOMAIN c.functions :
                         c.functions[k][1] = "  function " /\ c.functions[k][2] = name]
  IN SubSeq(f, indexOf(f, 1, ") {") + 1, Len(f) - 1)

\* the function after props are bound and before the first __render:
\* __mounted is false, nothing is rendered, no effect has run; writes counts
\* the assignments to state bindings, intercepted those made through
\* __state, stale says a binding was written after the last render read it,
\* effects holds the effect bodies run so far, and choices is what the last
\* render found
Called ==
  [status |-> "mounted", error |-> "", mounted |-> FALSE, renders |-> 0,
   effects |-> <<>>, writes |-> 0, intercepted |-> 0, stale |-> FALSE,
   doc |-> NewDocument, listeners |-> <<>>,
   choices |-> [cond |-> FALSE, items |-> 0]]

\* __render() up to the test of __mounted: the container is emptied, the
\* render body fills the fragment, the fragment goes into the container
paint(c, rt0, choices) ==
  LET st == browser("execBody", <<c.renderBody, NewDocument, choices>>)
  IN IF st.status # "ok"
     THEN [rt0 EXCEPT !.status = "threw", !.error = st.status, !.renders = @ + 1,
                      !.doc = st.doc, !.choices = choices]
     ELSE [rt0 EXCEPT !.renders = @ + 1, !.stale = FALSE,
                      !.doc = appendFragment(st.doc),
                      !.listeners = st.listeners, !.choices = choices]

\* the lowered statements code from piece from on: the assignments to state
\* bindings and the calls of nested functions, in order.  __state.n = v runs
\* the setter of genStateDecl, n = v; __render();  n = v alone writes the
\* binding and nothing more.  Lowered statements run when __mounted is true,
\* so the setter's __render() runs no effect
runBody(code, from, rt0, c, choices, depth) ==
  LET i == firstIndex(code, from,
             {j \in DOMAIN code : code[j] \in stateNames(c) \cup functionNames(c) \cup {"__state"}})
      piece == code[i]
      at(j) == IF j \in DOMAIN code THEN code[j] ELSE ""
  IN
  IF i > Len(code) \/ rt0.status = "threw" THEN rt0
  ELSE IF piece = "__state" /\ at(i + 1) = "." /\ at(i + 2) \in stateNames(c)
       /\ at(i + 3) = " = "
  THEN LET written == [rt0 EXCEPT !.writes = @ + 1, !.intercepted = @ + 1,
                                  !.stale = TRUE]
            painted == browser("paint", <<c, written, choices>>)
       IN browser("runBody", <<code, i + 4, painted, c, choices, depth>>)
  ELSE IF piece \in stateNames(c) /\ at(i + 1) = " = "
            /\ at(i - 1) \notin {".", "const ", "let "}
  THEN LET written == [rt0 EXCEPT !.writes = @ + 1, !.stale = TRUE]
       IN browser("runBody", <<code, i + 2, written, c, choices, depth>>)
  ELSE IF piece \in functionNames(c) /\ at(i + 1) = "(" /\ depth > 0
  THEN LET body == functionBody(c, piece)
            returned == browser("runBody", <<body, 1, rt0, c, choices, depth - 1>>)
       IN browser("runBody", <<code, i + 1, returned, c, choices, depth>>)
  ELSE browser("runBody", <<code, i + 1, rt0, c, choices, depth>>)

\* the effects inside if (!__mounted), from the k-th, in the order of
\* this.effects
runEffects(c, k, rt0, choices) ==
  IF k > Len(c.effects) \/ rt0.status = "threw" THEN rt0
  ELSE LET started == [rt0 EXCEPT !.effects = Append(@, c.effects[k])]
           ran == browser("runBody", <<c.effects[k], 1, started, c, choices, MaxCallDepth>>)
       IN browser("runEffects", <<c, k + 1, ran, choices>>)

\* a __render that runs the effects every time
renderEveryTime(c, rt0, choices) ==
  LET shown == browser("paint", <<c, rt0, choices>>)
      mounted == [shown EXCEPT !.mounted = TRUE]
  IN IF shown.status = "threw" THEN shown
     ELSE browser("runEffects", <<c, 1, mounted, choices>>)

\* __render(): the render body is shown, and the first time the effects run
render(c, rt0, choices) ==
  LET shown == browser("paint", <<c, rt0, choices>>)
      mounted == [shown EXCEPT !.mounted = TRUE]
  IN IF shown.status = "threw" \/ shown.mounted THEN shown
     ELSE browser("runEffects", <<c, 1, mounted, choices>>)

\* Name({}) of the page's auto-mount: the script compiles, the function
\* runs to its first __render() and returns __el
mount(c, choices) ==
  IF redeclares(c.renderBody)
  THEN [Called EXCEPT !.status = "threw", !.error = "SyntaxError"]
  ELSE browser("render", <<c, Called, choices>>)

\* the listener genUIElement added: function(e) { handler(e); __render(); };
\* a handler that is not a nested function of the component writes none of
\* its state
fire(c, rt0, listener, choices) ==
  LET body == functionBody(c, listener.handler[1])
      handled == IF Len(listener.handler) = 1 /\ listener.handler[1] \in functionNames(c)
                 THEN browser("runBody", <<body, 1, rt0, c, choices, MaxCallDepth>>)
                 ELSE rt0
  IN browser("render", <<c, handled, choices>>)

(* The steps of the browser call one another through browser: the step   *)
(* called name, applied to the arguments a.                               *)
browser(name, a) ==
  CASE name = "execStatement" -> execStatement(a[1], a[2], a[3], a[4])
    [] name = "execStatements" -> execStatements(a[1], a[2], a[3], a[4], a[5], a[6])
    [] name = "execBlock" -> execBlock(a[1], a[2], a[3], a[4])
    [] name = "execTimes" -> execTimes(a[1], a[2], a[3], a[4], a[5])
    [] name = "execBody" -> execBody(a[1], a[2], a[3])
    [] name = "paint" -> paint(a[1], a[2], a[3])
    [] name = "runBody" -> runBody(a[1], a[2], a[3], a[4], a[5], a[6])
    [] name = "runEffects" -> runEffects(a[1], a[2], a[3], a[4])
    [] name = "render" -> render(a[1], a[2], a[3])
    [] name = "mount" -> mount(a[1], a[2])
    [] name = "fire" -> fire(a[1], a[2], a[3], a[4])

----------------------------------------------------------------------------
(* The sources of the syntax specification: UI tags and if blocks *)

\* tag names: each is lexed as one Identifier token
TagNames ==
  {<<"d","i","v">>,
   <<"s","p","a","n">>,
   <<"a">>,
   <<"B","u","t","t","o","n">>,
   <<"C","a","r","d">>,
   <<"A">>}

\* what may follow the tag name:  class="c"  |  disabled  |  @click={go}
TagAttributes ==
  {<<>>,
   <<" ","c","l","a","s","s","=","\"","c","\"">>,
   <<" ","d","i","s","a","b","l","e","d">>,
   <<" ","@","c","l","i","c","k","=","{","g","o","}">>}

\* what may stand between the tags:  "hi"  |  {n}  |  <b/>  |  hello world
TagChildren ==
  {<<>>,
   <<"\"","h","i","\"">>,
   <<"{","n","}">>,
   <<"<","b","/",">">>,
   <<"h","e","l","l","o"," ","w","o","r","l","d">>}

\* <T attrs/> or <T attrs>child</U>
TagSource(T, attrs, selfClosing, child, U) ==
  <<"<">> \o T \o attrs
    \o (IF selfClosing THEN <<"/", ">">>
        ELSE <<">">> \o child \o <<"<", "/">> \o U \o <<">">>)

\* the assignments of an if block, each with the name it assigns to:
\*   x = 1  |  count = count + 1  |  inputValue = ""
Assignments ==
  << [text |-> <<"x"," ","="," ","1">>,
      target |-> <<"x">>],
     [text |-> <<"c","o","u","n","t"," ","="," ","c","o","u","n","t"," ","+"," ",
              "1">>,
      target |-> <<"c","o","u","n","t">>],
     [text |-> <<"i","n","p","u","t","V","a","l","u","e"," ","="," ","\"","\"">>,
      target |-> <<"i","n","p","u","t","V","a","l","u","e">>] >>

\* what separates two assignments: ';' or line feeds
AssignmentSeparators ==
  {<<";">>, <<" ", ";", " ">>, <<"\n">>, <<"\n", "\n">>, <<";", "\n">>}

\* what stands inside each brace of the block
BlockPads == {<<" ">>, <<"\n">>}

\* if inputValue != "" {
IfHead ==
  <<"i","f"," ","i","n","p","u","t","V","a","l","u","e"," ","!","="," ","\"",
    "\""," ","{">>

\* the assignments as (indices into Assignments), seps[i] after the i-th
RECURSIVE AssignmentList(_, _, _)
AssignmentList(as, seps, i) ==
  IF i > Len(as) THEN <<>>
  ELSE Assignments[as[i]].text
         \o (IF i < Len(as) THEN seps[i] ELSE <<>>)
         \o AssignmentList(as, seps, i + 1)

IfSource(as, seps, pad) ==
  IfHead \o pad \o AssignmentList(as, seps, 1) \o pad \o <<"}">>

----------------------------------------------------------------------------
(* The pipeline: compile (unnamed/part_004) and TypeChecker.check *)

NoResult == [returned |-> FALSE]

\* the variables of the lexer's loop, and those of the type specification
lexerVars == <<pos, line, column>>
typeVars == <<tyA, tyB, compat>>
reuseVars == <<checker, cgen, freshChecked, freshOut, draws>>

\* the page before its script has run
NoRuntime == [status |-> "unloaded"]

\* a generator as its constructor leaves it
NewGenerator == [components |-> <<>>, styles |-> <<>>]

\* the pipeline before compile(source) is called
Start(in, src) ==
  /\ input = in
  /\ source = src
  /\ pc = "start"
  /\ run = 1
  /\ pos = 0
  /\ line = 1
  /\ column = 1
  /\ tokens = <<>>
  /\ error = NoMsg
  /\ ast = NoNode
  /\ parsePos = 0
  /\ checked = NoResult
  /\ out1 = NoResult
  /\ out2 = NoResult
  /\ tyA = NoNode
  /\ tyB = NoNode
  /\ compat = FALSE
  /\ checker = <<>>
  /\ cgen = NewGenerator
  /\ freshChecked = NoResult
  /\ freshOut = NoResult
  /\ draws = <<>>
  /\ rt = NoRuntime

Init ==
  \E us \in UnitSeqs, sep \in Separators :
    Start([kind |-> "program", units |-> us, sep |-> sep], Program(us, sep))

\* const tokens = new Lexer(source).tokenize(), an iteration of its loop at a
\* time
LexStep ==
  /\ pc = "start"
  /\ pos < Len(source)
  /\ \E st \in {lexIteration(source, LexState(pos, line, column, tokens, NoMsg))} :
        /\ pos' = st.pos
        /\ line' = st.line
        /\ column' = st.column
        /\ tokens' = st.tokens
        /\ error' = st.error
        /\ pc' = IF st.error = NoMsg THEN "start" ELSE "threw"
  /\ UNCHANGED <<run, input, source, ast, parsePos, checked, out1, out2, typeVars, rt,
                 reuseVars>>

\* the loop is left: the EOF token is added and filterNewlines is run
LexFinish ==
  /\ pc = "start"
  /\ pos >= Len(source)
  /\ \E st \in {lexFinish(LexState(pos, line, column, tokens, NoMsg))} :
        tokens' = st.tokens
  /\ pc' = "tokenized"
  /\ UNCHANGED <<run, input, source, pos, line, column, error, ast, parsePos,
                 checked, out1, out2, typeVars, rt, reuseVars>>

\* new Lexer(source).tokenize() as one step
Tokenize ==
  /\ pc = "start"
  /\ \E st \in {tokenize(source)} :
        /\ tokens' = st.tokens
        /\ error' = st.error
        /\ pc' = IF st.error = NoMsg THEN "tokenized" ELSE "threw"
  /\ UNCHANGED <<run, input, source, ast, parsePos, checked, out1, out2,
                 lexerVars, typeVars, rt, reuseVars>>

\* const ast = new Parser(tokens).parse()
Parse ==
  /\ pc = "tokenized"
  /\ \E r \in {production("parse", <<>>)} :
        /\ ast' = r.val
        /\ parsePos' = r.pos
        /\ error' = r.err
        /\ pc' = IF r.ok THEN "parsed" ELSE "threw"
  /\ UNCHANGED <<run, input, source, tokens, checked, out1, out2,
                 lexerVars, typeVars, rt, reuseVars>>

\* a check that writes the type it found into each top-level node: what
\* check is not
CheckAnnotating ==
  /\ pc = "parsed"
  /\ checked = NoResult
  /\ checked' = checkProgram(ast, <<>>)
  /\ ast' = [ast EXCEPT !.body = [i \in DOMAIN @ |-> @[i] @@ [inferredType |-> TVoid]]]
  /\ UNCHANGED <<pc, run, input, source, tokens, error, parsePos, out1, out2,
                 lexerVars, typeVars, rt, reuseVars>>

\* new TypeChecker().check(ast), which a caller may run on the parsed program
Check ==
  /\ pc = "parsed"
  /\ checked = NoResult
  /\ checked' = checkProgram(ast, <<>>)
  /\ UNCHANGED <<pc, run, input, source, tokens, error, ast, parsePos, out1, out2,
                 lexerVars, typeVars, rt, reuseVars>>

\* return new CodeGenerator().generate(ast); the caller then compiles the
\* same source once more
Generate ==
  /\ pc = "parsed"
  /\ \E rnd \in [1..MaxDraws -> RandomSuffixes] :
       \E out \in {generator("generate", <<ast, <<>>, <<>>, rnd>>)} :
          /\ IF run = 1 THEN out1' = out /\ out2' = out2
                       ELSE out2' = out /\ out1' = out1
          /\ error' = IF out.returned THEN NoMsg ELSE TypeErrorMessage
          /\ pc' = IF ~out.returned THEN "threw"
                   ELSE IF run = 1 THEN "start" ELSE "done"
          /\ run' = IF out.returned /\ run = 1 THEN 2 ELSE run
          \* the second compile starts with a new Lexer
          /\ IF out.returned /\ run = 1
             THEN pos' = 0 /\ line' = 1 /\ column' = 1 /\ tokens' = <<>>
             ELSE UNCHANGED <<lexerVars, tokens>>
  /\ UNCHANGED <<input, source, ast, parsePos, checked, typeVars, rt, reuseVars>>

Next == LexStep \/ LexFinish \/ Parse \/ Check \/ Generate

Spec == Init /\ [][Next]_vars

----------------------------------------------------------------------------
(* The syntax specification: tokenize and parse on UI tags and if blocks *)

InitSyntax ==
  \/ \E T \in TagNames, attrs \in TagAttributes :
       Start([kind |-> "tag", tag |-> T, selfClosing |-> TRUE, closing |-> T],
             TagSource(T, attrs, TRUE, <<>>, T))
  \/ \E T \in TagNames, attrs \in TagAttributes, child \in TagChildren, U \in TagNames :
       Start([kind |-> "tag", tag |-> T, selfClosing |-> FALSE, closing |-> U],
             TagSource(T, attrs, FALSE, child, U))
  \/ \E n \in 0..MaxAssignments, pad \in BlockPads :
       \E as \in [1..n -> 1..Len(Assignments)] :
         \E seps \in [1..(IF n = 0 THEN 0 ELSE n - 1) -> AssignmentSeparators] :
           Start([kind |-> "if", assignments |-> as, seps |-> seps, pad |-> pad],
                 IfSource(as, seps, pad))

NextSyntax == Tokenize \/ Parse

SpecSyntax == InitSyntax /\ [][NextSyntax]_vars

----------------------------------------------------------------------------
(* The lexer specification: tokenize one iteration of its loop at a time *)

\* the pieces a source of the lexer specification is put together from:
\* a letter, a blank, a line feed, a quote, a backslash (outside a string, a
\* character no case of tokenize knows), a grave accent, the ends of a block
\* comment, the start of a line comment, two braces, an opening and a
\* closing tag
LexFragments ==
  {<<"a">>, <<" ">>, <<"\n">>, <<"\"">>, <<"\\">>, <<Backquote>>,
   <<"/", "*">>, <<"*", "/">>, <<"/", "/">>, <<"{">>, <<"}">>,
   <<"<", "a", ">">>, <<"<", "/", "a", ">">>}

InitLex ==
  \/ \E n \in 1..MaxFrags : \E fs \in [1..n -> LexFragments] :
       Start([kind |-> "fragments", fragments |-> fs], Flatten(fs))
  \/ \E i \in 1..Len(Statements) :
       Start([kind |-> "program", units |-> <<i>>, sep |-> <<>>], Statements[i].text)

NextLex == LexStep \/ LexFinish \/ Parse

SpecLex == InitLex /\ [][NextLex]_vars

\* LexFinish and Parse as fairness sees them: each can be taken exactly when
\* its guard holds, and the step it takes is the one that changes pc so
LexFinishTaken ==
  pc = "start" /\ pos >= Len(source) /\ pc' = "tokenized"
ParseTaken ==
  pc = "tokenized" /\ pc' \in {"parsed", "threw"}

\* tokenize and parse are straight-line code: a step that can be taken is
\* taken
FairSpecLex ==
  /\ SpecLex
  /\ WF_vars(LexStep)
  /\ WF_pc(LexFinishTaken)
  /\ WF_pc(ParseTaken)

----------------------------------------------------------------------------
(* The newline specification: tokenize on line feeds among delimiters *)

\* the pieces a source of the newline specification is put together from: a
\* line feed, the delimiters filterNewlines looks at, a name, else, a blank
NewlineFragments ==
  {<<"\n">>, <<"{">>, <<"(">>, <<"[">>, <<",">>, <<";">>, <<"}">>, <<")">>,
   <<"]">>, <<"a">>, <<"e", "l", "s", "e">>, <<" ">>}

InitNewlines ==
  \E n \in 1..MaxFrags : \E fs \in [1..n -> NewlineFragments] :
    Start([kind |-> "fragments", fragments |-> fs], Flatten(fs))

NextNewlines == LexStep \/ LexFinish

SpecNewlines == InitNewlines /\ [][NextNewlines]_vars

----------------------------------------------------------------------------
(* The word specification: tokenize on one word *)

\* names that are in no table
PlainWords ==
  {<<"x">>, <<"_">>, <<"c","o","u","n","t">>, <<"L","e","t">>, <<"I","F">>,
   <<"i","n","p","u","t","V","a","l","u","e">>, <<"B","u","t","t","o","n">>,
   <<"d","i","v">>}

\* what a word may end with beyond its stem
WordEndings == {<<>>, <<"s">>, <<"1">>, <<"_">>}

\* what may follow the word in the source
WordTails == {<<>>, <<" ">>, <<"\n">>}

InitWords ==
  \E stem \in KeywordWords \cup ObjectPrototypeWords \cup PlainWords,
     ending \in WordEndings, tail \in WordTails :
    Start([kind |-> "word", word |-> stem \o ending], stem \o ending \o tail)

NextWords == LexStep \/ LexFinish

SpecWords == InitWords /\ [][NextWords]_vars

----------------------------------------------------------------------------
(* The type specification: isCompatible on the closed set of types *)

\* the types without an Array in them: the six plain kinds, objects,
\* functions and components
BaseTypes ==
  {TInt, TString, TBool, TNull, TAny, TVoid,
   TObject(<<>>), TObject(<<[key |-> <<"x">>, value |-> TInt]>>),
   TFunction(<<>>, TVoid), TFunction(<<TInt>>, TInt),
   TComponent(<<>>)}

\* the types whose Arrays nest at most d deep
RECURSIVE TypesOfDepth(_)
TypesOfDepth(d) ==
  IF d = 0 THEN BaseTypes
  ELSE BaseTypes \cup {TArray(t) : t \in TypesOfDepth(d - 1)}

InitTypes ==
  /\ \E a \in TypesOfDepth(MaxTypeDepth), b \in TypesOfDepth(MaxTypeDepth) :
       tyA = a /\ tyB = b
  /\ compat = FALSE
  /\ pc = "start"
  /\ run = 1
  /\ input = [kind |-> "types"]
  /\ source = <<>>
  /\ pos = 0
  /\ line = 1
  /\ column = 1
  /\ tokens = <<>>
  /\ error = NoMsg
  /\ ast = NoNode
  /\ parsePos = 0
  /\ checked = NoResult
  /\ out1 = NoResult
  /\ out2 = NoResult
  /\ checker = <<>>
  /\ cgen = NewGenerator
  /\ freshChecked = NoResult
  /\ freshOut = NoResult
  /\ draws = <<>>
  /\ rt = NoRuntime

\* this.isCompatible(actual, expected)
Compare ==
  /\ pc = "start"
  /\ compat' = isCompatible(tyA, tyB)
  /\ pc' = "compared"
  /\ UNCHANGED <<run, input, source, tokens, error, ast, parsePos, checked, out1,
                 out2, lexerVars, tyA, tyB, rt, reuseVars>>

NextTypes == Compare

SpecTypes == InitTypes /\ [][NextTypes]_vars

----------------------------------------------------------------------------
(* The pipe specification: compile on  let result = x |> f1 |> ... |> fn   *)

\* what a chain starts with, and the functions of its stages
PipeHeads == {<<"d","a","t","a">>, <<"x">>}
PipeFunctions ==
  {<<"t","r","a","n","s","f","o","r","m">>, <<"r","e","n","d","e","r">>, <<"f">>}

\* let result = head |> stages[1] |> ... |> stages[n]
RECURSIVE PipeStages(_, _)
PipeStages(stages, i) ==
  IF i > Len(stages) THEN <<>>
  ELSE <<" ", "|", ">", " ">> \o stages[i] \o PipeStages(stages, i + 1)

PipeSource(head, stages) ==
  <<"l","e","t"," ","r","e","s","u","l","t"," ","="," ">> \o head
    \o PipeStages(stages, 1)

InitPipe ==
  \E head \in PipeHeads, n \in 0..MaxStages :
    \E stages \in [1..n -> PipeFunctions] :
      Start([kind |-> "pipe", head |-> head, stages |-> stages],
            PipeSource(head, stages))

NextPipe == Tokenize \/ Parse \/ Generate

SpecPipe == InitPipe /\ [][NextPipe]_vars

----------------------------------------------------------------------------
(* The less-than specification: tokenize and parse on a '<' at the start   *)
(* of a statement, after an operand and among the children of an element   *)

\* what follows the '<': the start of an element that is self-closing, has a
\* capital, a digit in its name, a child or no end; a number, a name with a
\* leading underscore (alone and before />), a parenthesis, a string, a
\* literal, a minus sign, two reserved words, a slash, a second '<', a brace
\* and nothing
LessOperands ==
  {<<"b", "/", ">">>, <<"B", "/", ">">>, <<"b", "1", "/", ">">>,
   <<"b", ">", "t", "<", "/", "b", ">">>, <<"b">>,
   <<"1">>, <<"_", "b">>, <<"_", "b", "/", ">">>, <<"(", "b", ")">>,
   <<"\"", "s", "\"">>, <<"t", "r", "u", "e">>, <<"-", "b">>,
   <<"i", "f">>, <<"o", "n">>, <<"/", "b", ">">>, <<"<", "b", "/", ">">>,
   <<"{", "b", "}">>, <<>>}

\* what stands between the '<' and what follows it
LessGaps == {<<>>, <<" ">>}

LessPositions == {"statement", "comparison", "child"}

\* < X    let r = a < X    <p>< X</p>
LessSource(position, gap, operand) ==
  CASE position = "statement" -> <<"<">> \o gap \o operand
    [] position = "comparison" ->
         <<"l","e","t"," ","r"," ","="," ","a"," ","<">> \o gap \o operand
    [] position = "child" ->
         <<"<","p",">","<">> \o gap \o operand \o <<"<","/","p",">">>

\* the index, from 0, of the token of that '<'
LessIndex(position) ==
  CASE position = "statement" -> 0
    [] position = "comparison" -> 4
    [] position = "child" -> 3

InitLess ==
  \E position \in LessPositions, gap \in LessGaps, operand \in LessOperands :
    Start([kind |-> "less", position |-> position, gap |-> gap, operand |-> operand],
          LessSource(position, gap, operand))

NextLess == Tokenize \/ Parse

SpecLess == InitLess /\ [][NextLess]_vars

----------------------------------------------------------------------------
(* The scopes specification: tokenize, parse and check on programs whose   *)
(* declarations refer to one another                                       *)

\* top-level declarations that call the function f or instantiate (or call)
\* the component C:
\*   component A() { <p>{f(1)}</p> }
\*   component A() { <div><C /></div> }
\*   component A() { <C /> }
\*   fn g() { f(1) }
\*   fn g() -> Int { return f(1) }
\*   fn g() { <C /> }
\*   let x = f(1)
\*   let y = C()
\*   state s = f(1)
\*   fn g() { if true { f(1) } }
\*   component A() { fn h() { f(1) } \n <p>"a"</p> }
ForwardReferrers ==
  << <<"c","o","m","p","o","n","e","n","t"," ","A","(",")"," ","{"," ","<",
        "p",">","{","f","(","1",")","}","<","/","p",">"," ","}">>,
     <<"c","o","m","p","o","n","e","n","t"," ","A","(",")"," ","{"," ","<",
        "d","i","v",">","<","C"," ","/",">","<","/","d","i","v",">"," ","}">>,
     <<"c","o","m","p","o","n","e","n","t"," ","A","(",")"," ","{"," ","<",
        "C"," ","/",">"," ","}">>,
     <<"f","n"," ","g","(",")"," ","{"," ","f","(","1",")"," ","}">>,
     <<"f","n"," ","g","(",")"," ","-",">"," ","I","n","t"," ","{"," ","r",
        "e","t","u","r","n"," ","f","(","1",")"," ","}">>,
     <<"f","n"," ","g","(",")"," ","{"," ","<","C"," ","/",">"," ","}">>,
     <<"l","e","t"," ","x"," ","="," ","f","(","1",")">>,
     <<"l","e","t"," ","y"," ","="," ","C","(",")">>,
     <<"s","t","a","t","e"," ","s"," ","="," ","f","(","1",")">>,
     <<"f","n"," ","g","(",")"," ","{"," ","i","f"," ","t","r","u","e"," ",
        "{"," ","f","(","1",")"," ","}"," ","}">>,
     <<"c","o","m","p","o","n","e","n","t"," ","A","(",")"," ","{"," ","f",
        "n"," ","h","(",")"," ","{"," ","f","(","1",")"," ","}"," ","\n"," ",
        "<","p",">","\"","a","\"","<","/","p",">"," ","}">> >>

\* the declarations of f and C:
\*   fn f(n: Int) -> Int { return n }
\*   component C() { <p>"c"</p> }
ForwardTargets ==
  << <<"f","n"," ","f","(","n",":"," ","I","n","t",")"," ","-",">"," ","I",
        "n","t"," ","{"," ","r","e","t","u","r","n"," ","n"," ","}">>,
     <<"c","o","m","p","o","n","e","n","t"," ","C","(",")"," ","{"," ","<",
        "p",">","\"","c","\"","<","/","p",">"," ","}">> >>

\* what stands between two top-level declarations
ScopeSeparators == {<<"\n">>, <<"\n", "\n">>}

\* the referrer as declaration number place of the three
ForwardSource(r, place, sep) ==
  LET R == ForwardReferrers[r]
      F == ForwardTargets[1]
      C == ForwardTargets[2]
  IN CASE place = 1 -> R \o sep \o F \o sep \o C
       [] place = 2 -> F \o sep \o R \o sep \o C
       [] place = 3 -> F \o sep \o C \o sep \o R

\* statements in which the parameter a (no annotation: Any) or v (Void)
\* stands where a type is required: as an operand, as an if condition, as an
\* initializer, as an assigned value and as a call argument
UniversalContexts ==
  << <<"a"," ","-"," ","1">>,
     <<"1"," ","*"," ","a">>,
     <<"a"," ","/"," ","2">>,
     <<"a"," ","%"," ","2">>,
     <<"a"," ","&","&"," ","t","r","u","e">>,
     <<"t","r","u","e"," ","|","|"," ","a">>,
     <<"!","a">>,
     <<"-","a">>,
     <<"i","f"," ","a"," ","{"," ","n"," ","="," ","1"," ","}">>,
     <<"l","e","t"," ","m",":"," ","I","n","t"," ","="," ","a">>,
     <<"n"," ","="," ","a">>,
     <<"h","(","a",")">>,
     <<"v"," ","-"," ","1">>,
     <<"1"," ","*"," ","v">>,
     <<"v"," ","/"," ","2">>,
     <<"v"," ","%"," ","2">>,
     <<"v"," ","&","&"," ","t","r","u","e">>,
     <<"t","r","u","e"," ","|","|"," ","v">>,
     <<"!","v">>,
     <<"-","v">>,
     <<"i","f"," ","v"," ","{"," ","n"," ","="," ","1"," ","}">>,
     <<"l","e","t"," ","m",":"," ","I","n","t"," ","="," ","v">>,
     <<"n"," ","="," ","v">>,
     <<"h","(","v",")">> >>

\* fn h(k: Int) -> Int { return k }
\* fn f(a, v: Void, n: Int) {
\*   statement
\* }
UniversalSource(c) ==
  <<"f","n"," ","h","(","k",":"," ","I","n","t",")"," ","-",">"," ","I","n","t",
    " ","{"," ","r","e","t","u","r","n"," ","k"," ","}","\n">>
    \o <<"f","n"," ","f","(","a",","," ","v",":"," ","V","o","i","d",","," ","n",
         ":"," ","I","n","t",")"," ","{","\n"," "," ">>
    \o UniversalContexts[c] \o <<"\n", "}">>

\* statements that refer to the function helper by its name: sibling
\* statements and UI expressions
HelperReferences ==
  << <<"h","e","l","p","e","r","(",")">>,
     <<"l","e","t"," ","x"," ","="," ","h","e","l","p","e","r","(",")">>,
     <<"l","e","t"," ","k"," ","="," ","h","e","l","p","e","r">>,
     <<"<","p",">","{","h","e","l","p","e","r","(",")","}","<","/","p",">">>,
     <<"<","p",">","{","h","e","l","p","e","r","}","<","/","p",">">>,
     <<"<","d","i","v",">","<","p",">","{","h","e","l","p","e","r","(",")",
        "}","<","/","p",">","<","/","d","i","v",">">>,
     <<"i","f"," ","t","r","u","e"," ","{"," ","h","e","l","p","e","r","(",
        ")"," ","}">> >>

\* fn helper() { return 1 }
HelperDecl ==
  <<"f","n"," ","h","e","l","p","e","r","(",")"," ","{"," ","r","e","t","u","r",
    "n"," ","1"," ","}">>

\* helper declared in the body of the component or function that refers to
\* it, or at the top level before or after it
NestedSource(place, owner, ref, first) ==
  LET head == IF owner = "component"
              THEN <<"c","o","m","p","o","n","e","n","t"," ","A","(",")"," ","{","\n">>
              ELSE <<"f","n"," ","o","u","t","e","r","(",")"," ","{","\n">>
      use == <<" ", " ">> \o HelperReferences[ref] \o <<"\n">>
      decl == <<" ", " ">> \o HelperDecl \o <<"\n">>
  IN IF place = "nested"
     THEN head \o (IF first THEN decl \o use ELSE use \o decl) \o <<"}">>
     ELSE IF first THEN HelperDecl \o <<"\n">> \o head \o use \o <<"}">>
          ELSE head \o use \o <<"}", "\n">> \o HelperDecl

InitScopes ==
  \/ \E r \in DOMAIN ForwardReferrers, place \in 1..3, sep \in ScopeSeparators :
       Start([kind |-> "forward", referrer |-> r, place |-> place],
             ForwardSource(r, place, sep))
  \/ \E c \in DOMAIN UniversalContexts :
       Start([kind |-> "universal", context |-> c], UniversalSource(c))
  \/ \E place \in {"nested", "top"}, owner \in {"component", "function"},
          ref \in DOMAIN HelperReferences, first \in BOOLEAN :
       Start([kind |-> "helper", place |-> place, owner |-> owner, ref |-> ref,
              first |-> first],
             NestedSource(place, owner, ref, first))

NextScopes == Tokenize \/ Parse \/ Check

SpecScopes == InitScopes /\ [][NextScopes]_vars

----------------------------------------------------------------------------
(* The operators specification: checkNode on  l op r  for every operator   *)
(* and every pair of types of l and r                                      *)

OperandTypes == BaseTypes \cup {TArray(TInt)}

BinaryOperators == ArithmeticOperators \cup ComparisonOperators \cup LogicalOperators

\* the scope in which l and r have the types of the input
OperandScope == <<[key |-> <<"l">>, value |-> tyA], [key |-> <<"r">>, value |-> tyB]>>

InitOperators ==
  /\ \E a \in OperandTypes, b \in OperandTypes : tyA = a /\ tyB = b
  /\ \E op \in BinaryOperators : input = [kind |-> "operator", operator |-> op]
  /\ compat = FALSE
  /\ pc = "start"
  /\ run = 1
  /\ source = <<>>
  /\ pos = 0
  /\ line = 1
  /\ column = 1
  /\ tokens = <<>>
  /\ error = NoMsg
  /\ ast = NoNode
  /\ parsePos = 0
  /\ checked = NoResult
  /\ out1 = NoResult
  /\ out2 = NoResult
  /\ checker = <<>>
  /\ cgen = NewGenerator
  /\ freshChecked = NoResult
  /\ freshOut = NoResult
  /\ draws = <<>>
  /\ rt = NoRuntime

\* this.checkNode(node, env) on the BinaryExpr  l op r
CheckBinary ==
  /\ pc = "start"
  /\ \E st \in {checkNode(Binary(input.operator,
                                 [type |-> "Identifier", name |-> <<"l">>],
                                 [type |-> "Identifier", name |-> <<"r">>]),
                          CheckState(<<OperandScope>>, <<>>))} :
       checked' = [returned |-> st.ok, type |-> st.type, errors |-> st.errors]
  /\ pc' = "typed"
  /\ UNCHANGED <<run, input, source, tokens, error, ast, parsePos, out1, out2,
                 lexerVars, typeVars, rt, reuseVars>>

NextOperators == CheckBinary

SpecOperators == InitOperators /\ [][NextOperators]_vars

----------------------------------------------------------------------------
(* The runtime specification: a component is compiled, and its page runs  *)

\* the longest stream of random suffixes, the most items a loop of the UI
\* goes over, and the most times __render runs
MaxSuffixes == 3
MaxItems == 2
MaxRenders == 3

\* the suffixes of the element variables on a page
RuntimeSuffixes == RandomSuffixes \cup {"k3x9q"}

\* the declarations of the component: a state and a function that writes it,
\* assigns through __state or reads it, alone or followed by effects that
\* write the state, call the function or name the state they depend on
RuntimeDeclarations ==
  << <<"s","t","a","t","e"," ","n"," ","="," ","[","1","]","\n","f","n"," ",
        "i","n","c","(",")"," ","{"," ","n"," ","="," ","[","]"," ","}","\n">>,
     <<"s","t","a","t","e"," ","n"," ","="," ","[","1","]","\n","f","n"," ",
        "i","n","c","(",")"," ","{"," ","n"," ","="," ","[","]"," ","}","\n",
        "e","f","f","e","c","t"," ","{"," ","n"," ","="," ","[","5","]"," ",
        "}","\n">>,
     <<"s","t","a","t","e"," ","n"," ","="," ","[","1","]","\n","f","n"," ",
        "i","n","c","(",")"," ","{"," ","n"," ","="," ","[","]"," ","}","\n",
        "e","f","f","e","c","t","(","n",")"," ","{"," ","i","n","c","(",")",
        " ","}","\n","e","f","f","e","c","t"," ","{"," ","n"," ","="," ","[",
        "5","]"," ","}","\n">>,
     <<"s","t","a","t","e"," ","n"," ","="," ","[","1","]","\n","f","n"," ",
        "i","n","c","(",")"," ","{"," ","_","_","s","t","a","t","e",".","n",
        " ","="," ","[","]"," ","}","\n">>,
     <<"s","t","a","t","e"," ","n"," ","="," ","[","1","]","\n","f","n"," ",
        "i","n","c","(",")"," ","{"," ","l","o","g","(","n",")"," ","}","\n",
        "e","f","f","e","c","t","(","n",")"," ","{"," ","l","o","g","(","n",
        ")"," ","}","\n">> >>

\* the UI of the component: elements in elements, texts and expressions
\* between them, an if with and without else, a for, and listeners
RuntimeTrees ==
  << <<"<","d","i","v",">","<","p",">","{","n","}","<","/","p",">","<","b",
        "u","t","t","o","n"," ","@","c","l","i","c","k","=","{","i","n","c",
        "}",">","\"","+","\"","<","/","b","u","t","t","o","n",">","<","/","d",
        "i","v",">">>,
     <<"<","d","i","v",">","\"","a","\"","<","p",">","\"","b","\"","<","/",
        "p",">","\"","c","\"","<","/","d","i","v",">">>,
     <<"<","u","l"," ","@","c","l","i","c","k","=","{","i","n","c","}",">",
        "{","i","f"," ","n"," ","{"," ","<","l","i",">","\"","x","\"","<","/",
        "l","i",">"," ","}"," ","e","l","s","e"," ","{"," ","<","l","i",">",
        "\"","y","\"","<","/","l","i",">"," ","}","}","<","/","u","l",">">>,
     <<"<","u","l",">","{","f","o","r"," ","i"," ","i","n"," ","n"," ","{",
        " ","<","l","i"," ","@","c","l","i","c","k","=","{","i","n","c","}",
        ">","{","i","}","<","/","l","i",">"," ","}","}","<","/","u","l",">">>,
     <<"<","d","i","v"," ","@","c","l","i","c","k","=","{","i","n","c","}",
        ">","<","s","e","c","t","i","o","n",">","<","p",">","\"","d","e","e",
        "p","\"","<","/","p",">","<","/","s","e","c","t","i","o","n",">","<",
        "/","d","i","v",">">>,
     <<"<","u","l"," ","@","c","l","i","c","k","=","{","i","n","c","}",">",
        "{","i","f"," ","n"," ","{"," ","<","l","i",">","<","b",">","\"","x",
        "\"","<","/","b",">","<","/","l","i",">"," ","}","}","<","/","u","l",
        ">">> >>

\* component A() { declarations tree }
RuntimeSource(d, t) ==
  <<"c","o","m","p","o","n","e","n","t"," ","A","(",")"," ","{","\n">>
    \o RuntimeDeclarations[d] \o RuntimeTrees[t] \o <<"\n", "}">>

InitRuntime ==
  \E d \in DOMAIN RuntimeDeclarations, t \in DOMAIN RuntimeTrees :
    Start([kind |-> "page", declarations |-> d, tree |-> t], RuntimeSource(d, t))

\* what a render finds: whether the conditions hold and how many items the
\* iterables have
RenderChoices == [cond : BOOLEAN, items : 0..MaxItems]

\* new CodeGenerator().generate(ast), whose html is the page
GeneratePage ==
  /\ pc = "parsed"
  /\ \E rnd \in UNION {[1..k -> RuntimeSuffixes] : k \in 1..MaxSuffixes} :
       \E out \in {generator("generate", <<ast, <<>>, <<>>, rnd>>)} :
          /\ out1' = out
          /\ draws' = rnd
          /\ error' = IF out.returned THEN NoMsg ELSE TypeErrorMessage
          /\ pc' = IF out.returned THEN "generated" ELSE "threw"
  /\ UNCHANGED <<run, input, source, tokens, ast, parsePos, checked, out2,
                 lexerVars, typeVars, rt, checker, cgen, freshChecked, freshOut>>

\* the page loads: document.getElementById('app').appendChild(A({}))
Mount ==
  /\ pc = "generated"
  /\ \E choices \in RenderChoices, c \in {lowerComponent(ast.body[1], draws)} :
       \E m \in {browser("mount", <<c, choices>>)} :
          /\ rt' = m
          /\ pc' = IF m.status = "threw" THEN "threw" ELSE "mounted"
  /\ UNCHANGED <<run, input, source, tokens, error, ast, parsePos, checked, out1, out2,
                 lexerVars, typeVars, reuseVars>>

\* an event reaches one of the listeners of the rendered elements
Event ==
  /\ pc = "mounted"
  /\ rt.renders < MaxRenders
  /\ \E l \in DOMAIN rt.listeners, choices \in RenderChoices,
        c \in {lowerComponent(ast.body[1], draws)} :
       \E m \in {browser("fire", <<c, rt, rt.listeners[l], choices>>)} :
          /\ rt' = m
          /\ pc' = IF m.status = "threw" THEN "threw" ELSE "mounted"
  /\ UNCHANGED <<run, input, source, tokens, error, ast, parsePos, checked, out1, out2,
                 lexerVars, typeVars, reuseVars>>

NextRuntime == LexStep \/ LexFinish \/ Parse \/ GeneratePage \/ Mount \/ Event

SpecRuntime == InitRuntime /\ [][NextRuntime]_vars

----------------------------------------------------------------------------
(* The instances specification: compile on a component whose UI tree holds *)
(* an instance of another component                                        *)

InstanceNames == {<<"B","u","t","t","o","n">>, <<"C">>}

\* the props an instance is given:  text="Go"  @click={go}  primary
InstanceProps ==
  << <<"t","e","x","t","=","\"","G","o","\"">>,
     <<"@","c","l","i","c","k","=","{","g","o","}">>,
     <<"p","r","i","m","a","r","y">> >>

\* the names of those props
InstancePropNames ==
  << <<"t","e","x","t">>, <<"@","c","l","i","c","k">>, <<"p","r","i","m","a","r","y">> >>

InstancePlaces == {"root", "child", "grandchild"}

\* the props numbered in given, each after a blank
RECURSIVE PropsText(_, _)
PropsText(given, i) ==
  IF i > Len(InstanceProps) THEN <<>>
  ELSE (IF i \in given THEN <<" ">> \o InstanceProps[i] ELSE <<>>)
         \o PropsText(given, i + 1)

\* component A() { <Name props /> }, the instance alone, in a div or in a p
\* in a div
InstanceSource(name, given, place) ==
  LET instance == <<"<">> \o name \o PropsText(given, 1) \o <<" ", "/", ">">>
      tree == CASE place = "root" -> instance
                [] place = "child" ->
                     <<"<","d","i","v",">">> \o instance \o <<"<","/","d","i","v",">">>
                [] place = "grandchild" ->
                     <<"<","d","i","v",">","<","p",">">> \o instance
                       \o <<"<","/","p",">","<","/","d","i","v",">">>
  IN <<"c","o","m","p","o","n","e","n","t"," ","A","(",")"," ","{"," ">>
       \o tree \o <<" ", "}">>

InitInstances ==
  \E name \in InstanceNames, given \in SUBSET (DOMAIN InstanceProps),
     place \in InstancePlaces :
    Start([kind |-> "instance", name |-> name, given |-> given, place |-> place],
          InstanceSource(name, given, place))

NextInstances == Tokenize \/ Parse \/ Generate

SpecInstances == InitInstances /\ [][NextInstances]_vars

----------------------------------------------------------------------------
(* The cursor specification: tokenize and parse on every statement of the  *)
(* documents cut short after any number of characters                      *)

\* what a cut statement is followed by: nothing, an opening delimiter, an
\* operator, a separator or the start of a tag
CursorTails ==
  {<<>>, <<"(">>, <<"{">>, <<"[">>, <<"<">>, <<"-">>, <<"=">>, <<"=", ">">>,
   <<".">>, <<",">>, <<":">>, <<"\n">>, <<";">>, <<"<", "a">>, <<" ", "?">>}

InitCursor ==
  \E u \in DOMAIN Statements :
    \E cut \in 0..Len(Statements[u].text), tail \in CursorTails :
      Start([kind |-> "cut", unit |-> u, cut |-> cut, tail |-> tail],
            SubSeq(Statements[u].text, 1, cut) \o tail)

NextCursor == Tokenize \/ Parse

SpecCursor == InitCursor /\ [][NextCursor]_vars

----------------------------------------------------------------------------
(* The reuse specification: one TypeChecker and one CodeGenerator that are *)
(* called on a first program and then on a second one                      *)

\* the statements the two programs are taken from: two components, a
\* binding, a style, an instance of a component that is declared nowhere, an
\* instance and a call of the component C
ReuseUnits == {1, 7, 8, 13, 14, 25, 26}

InitReuse ==
  \E a \in ReuseUnits, b \in ReuseUnits :
    Start([kind |-> "pair", units |-> <<a, b>>], Statements[a].text)

\* checker.check(ast) on the checker that is used again: check sets
\* this.errors to [] and leaves this.components as the last call left it
CheckReused ==
  /\ pc = "parsed"
  /\ checked = NoResult
  /\ \E r \in {checkProgram(ast, checker)} :
        /\ checked' = r
        /\ checker' = r.components
  /\ UNCHANGED <<pc, run, input, source, tokens, error, ast, parsePos, out1, out2,
                 lexerVars, typeVars, rt, cgen, freshChecked, freshOut, draws>>

\* new TypeChecker().check(ast) on the same program
CheckFresh ==
  /\ pc = "parsed"
  /\ freshChecked = NoResult
  /\ freshChecked' = checkProgram(ast, <<>>)
  /\ UNCHANGED <<pc, run, input, source, tokens, error, ast, parsePos, checked, out1,
                 out2, lexerVars, typeVars, rt, checker, cgen, freshOut, draws>>

\* generator.generate(ast) on the generator that is used again: generate
\* sets neither this.components nor this.styles before its loop
GenerateReused ==
  /\ pc = "parsed"
  /\ (IF run = 1 THEN out1 ELSE out2) = NoResult
  /\ \E rnd \in [1..MaxDraws -> RandomSuffixes] :
       \E out \in {generator("generate", <<ast, cgen.components, cgen.styles, rnd>>)} :
          /\ IF run = 1 THEN out1' = out /\ out2' = out2
                       ELSE out2' = out /\ out1' = out1
          /\ cgen' = [components |-> out.components, styles |-> out.styles]
          /\ draws' = rnd
  /\ UNCHANGED <<pc, run, input, source, tokens, error, ast, parsePos, checked,
                 lexerVars, typeVars, rt, checker, freshChecked, freshOut>>

\* new CodeGenerator().generate(ast) on the same program, Math.random
\* returning what it returned to the generator that is used again
GenerateFresh ==
  /\ pc = "parsed"
  /\ freshOut = NoResult
  /\ draws # <<>>
  /\ freshOut' = generator("generate", <<ast, <<>>, <<>>, draws>>)
  /\ UNCHANGED <<pc, run, input, source, tokens, error, ast, parsePos, checked, out1,
                 out2, lexerVars, typeVars, rt, checker, cgen, freshChecked, draws>>

\* the first program is done with: the second one is handed to a new Lexer
\* and a new Parser, the checker and the generator stay
NextProgram ==
  /\ pc = "parsed"
  /\ run = 1
  /\ checked # NoResult
  /\ out1 # NoResult
  /\ run' = 2
  /\ pc' = "start"
  /\ source' = Statements[input.units[2]].text
  /\ pos' = 0
  /\ line' = 1
  /\ column' = 1
  /\ tokens' = <<>>
  /\ checked' = NoResult
  /\ freshChecked' = NoResult
  /\ freshOut' = NoResult
  /\ draws' = <<>>
  /\ UNCHANGED <<input, error, ast, parsePos, out1, out2, typeVars, rt, checker, cgen>>

NextReuse ==
  \/ Tokenize \/ Parse
  \/ CheckReused \/ CheckFresh \/ GenerateReused \/ GenerateFresh
  \/ NextProgram

SpecReuse == InitReuse /\ [][NextReuse]_vars

----------------------------------------------------------------------------
(* Properties of the pipeline (Spec) *)

\* C1: determinism.  When compile has returned twice on the same source
\* text, the two results have the same html, the same js and the same css,
\* character for character.
CompileDeterministic ==
  pc = "done" =>
    /\ Text(out1.html) = Text(out2.html)
    /\ Text(out1.js) = Text(out2.js)
    /\ Text(out1.css) = Text(out2.css)

\* tokenize or parse threw: no Program came out of this compile
FrontEndThrew == pc = "threw" /\ ast = NoNode

\* C2: for every well-formed source, tokenize followed by parse does not
\* throw and returns one node of type Program whose body has one entry for
\* each top-level statement of the source, of that statement's kind, in
\* source order.
WellFormedParses ==
  input.kind = "program" =>
    /\ ~FrontEndThrew
    /\ pc = "parsed" =>
          /\ ast.type = "Program"
          /\ Len(ast.body) = Len(input.units)
          /\ \A i \in 1..Len(input.units) :
                ast.body[i].type = Statements[input.units[i]].kind

\* C10: check never aborts.  On every Program that parse produced, check
\* returns, it has visited every top-level node in order, diagnostics or
\* not, and its success flag is true exactly when its list of diagnostics
\* is empty.
CheckCompletes ==
  checked # NoResult =>
    /\ checked.returned
    /\ checked.visited = [i \in 1..Len(ast.body) |-> i]
    /\ checked.success <=> (checked.errors = <<>>)

\* check has returned diagnostics for a program of two statements, the first
\* of which already had one
CheckedWithDiagnostics ==
  /\ checked # NoResult
  /\ checked.returned
  /\ Len(checked.visited) = 2
  /\ input.units[1] = 10
  /\ checked.errors # <<>>
  /\ ~checked.success

\* the names a program exports: the name its declaration declares, for every
\* ExportDecl of the body
ExportedNames(program) ==
  LET decls == SelectSeq(program.body, LAMBDA n : n.type = "ExportDecl")
  IN [i \in 1..Len(decls) |-> Str(decls[i].declaration.name)]

\* the statement that publishes name on the namespace all scripts share
PublishStatement(name) == "window." \o name \o " = " \o name \o ";"

\* C13: export wiring.  The js generated for a program that holds an
\* ExportDecl holds, for each exported name, one statement
\* window.<name> = <name>; and these statements are its last ones.
ExportsPublished ==
  (out1 # NoResult /\ out1.returned /\ ast # NoNode) =>
    LET names == ExportedNames(ast)
        js == out1.js
    IN \A k \in 1..Len(names) :
         /\ Cardinality({i \in 1..Len(js) : js[i] = PublishStatement(names[k])}) = 1
         /\ \E i \in 1..Len(js) :
               /\ js[i] = PublishStatement(names[k])
               /\ i > Len(js) - 2 * Len(names)

\* the StyleDecl nodes of a program: those of its body and those of the
\* bodies of its components, in source order
StyleDeclsOf(program) ==
  Flatten([i \in 1..Len(program.body) |->
             IF program.body[i].type = "StyleDecl" THEN <<program.body[i]>>
             ELSE IF program.body[i].type = "ComponentDecl"
             THEN SelectSeq(program.body[i].body, LAMBDA n : n.type = "StyleDecl")
             ELSE <<>>])

\* a rule block with the selector .lumina-<name> starts at piece i of css
SelectorAt(css, i, name) ==
  /\ i + 2 <= Len(css)
  /\ css[i] = "."
  /\ css[i + 1] = "lumina-" \o name
  /\ css[i + 2] = " {"

\* the property names of the rule block that starts at piece i: the pieces
\* that follow the indentation of a line, up to the brace that closes the block
RuleProperties(css, i) ==
  LET close == CHOOSE j \in i..Len(css) :
                 css[j] = "}" /\ \A k \in i..(j - 1) : css[k] # "}"
      at == {k \in i..close : css[k] = "  "}
      RECURSIVE names(_)
      names(k) == IF k > close THEN <<>>
                  ELSE IF k \in at THEN <<css[k + 1]>> \o names(k + 1)
                  ELSE names(k + 1)
  IN names(i)

\* C14: css output.  For every StyleDecl of the program, one in the body of
\* a component included, the css holds one rule block with the selector
\* .lumina-<name> (.lumina-default for a declaration without a name), and the
\* block holds the declaration's properties, kebab-cased, in their order.
StylesEmitted ==
  (out1 # NoResult /\ out1.returned /\ ast # NoNode) =>
    LET decls == StyleDeclsOf(ast)
        css == out1.css
        nameOf(d) == IF d.name = <<>> THEN "default" ELSE Str(d.name)
    IN \A d \in 1..Len(decls) :
         /\ Cardinality({i \in 1..Len(css) : SelectorAt(css, i, nameOf(decls[d]))})
              = Cardinality({e \in 1..Len(decls) : nameOf(decls[e]) = nameOf(decls[d])})
         /\ \E i \in 1..Len(css) :
               /\ SelectorAt(css, i, nameOf(decls[d]))
               /\ RuleProperties(css, i)
                    = [k \in 1..Len(decls[d].properties) |->
                         camelToKebab(decls[d].properties[k].key)]

\* the node types that neither generate's loop nor genStatement nor genExpr
\* has a case for, among those parseStatement returns at the top level
UnrecognisedTypes ==
  {"ImportDecl", "ExportDecl", "ComponentInstance", "UIElement", "StateDecl",
   "EffectDecl"}

\* the placeholder comment for the node type is in the code
HasPlaceholder(code, type) ==
  \E k \in 1..(Len(code) - 2) :
    code[k] = "/* unknown: " /\ code[k + 1] = type /\ code[k + 2] = " */"

\* generate was called in the first compile
FirstGenerateCalled == out1 # NoResult

\* C15: generate has no failure mode.  On every Program parse returned,
\* generate returns, and for each top-level node of a type it has no case
\* for, the js holds the placeholder comment /* unknown: <type> */.
GenerateNeverFails ==
  (FirstGenerateCalled /\ ast # NoNode) =>
    /\ out1.returned
    /\ \A i \in 1..Len(ast.body) :
         ast.body[i].type \in UnrecognisedTypes =>
           HasPlaceholder(out1.js, ast.body[i].type)

----------------------------------------------------------------------------
(* Properties of the lexer (SpecLex, FairSpecLex) *)

EOFCount(toks) == Cardinality({i \in 1..Len(toks) : toks[i].type = "EOF"})

\* C3: whenever tokenize returns, the sequence it returns holds exactly one
\* EOF token and that token is its last element: filterNewlines neither
\* removes nor duplicates the EOF that tokenize added.
OneEOFLast ==
  pc = "tokenized" =>
    /\ tokens # <<>>
    /\ tokens[Len(tokens)].type = "EOF"
    /\ EOFCount(tokens) = 1

\* tokenize has returned on a source that ends in a line feed after a brace:
\* filterNewlines dropped the Newline token that stood before the EOF
NewlineDroppedBeforeEOF ==
  /\ pc = "tokenized"
  /\ source = <<"{", "\n">>
  /\ Len(tokens) = 2

\* C4: termination.  Every iteration of tokenize's loop moves the position
\* forward or throws, no loop of the parser repeats without advancing, and so
\* on every source tokenize returns or throws, and parse, run on the tokens
\* tokenize returned, returns or throws.
LexerAndParserTerminate ==
  /\ [][LexStep => (pos' > pos \/ pc' = "threw")]_vars
  /\ [](error # NoProgressMessage)
  /\ <>(pc \in {"parsed", "threw"})

\* parse has returned on a source whose tokenize went through two
\* iterations at least
ParsedAfterLoops ==
  /\ pc = "parsed"
  /\ input.kind = "fragments"
  /\ Len(tokens) >= 3
  /\ ast.body # <<>>

\* tokenize threw: its loop was left by an exception
LexerThrew ==
  pc = "threw" /\ (tokens = <<>> \/ tokens[Len(tokens)].type # "EOF")

\* the message names the line by " at line <n>", the column by
\* ", column <n>"
NamesLine(msg) ==
  \E i \in 1..Len(msg) - 1 :
    msg[i] = " at line " /\ \E n \in 1..Len(source) + 1 : msg[i + 1] = ToString(n)
NamesColumn(msg) ==
  \E i \in 1..Len(msg) - 1 :
    msg[i] = ", column " /\ \E n \in 0..Len(source) + 1 : msg[i + 1] = ToString(n)

\* C9: tokenize fails on an unterminated string, an unterminated block
\* comment or a character that is no operator and no delimiter, on nothing
\* else, and the message of each failure holds the line and the column.
LexErrorsLocated ==
  LexerThrew =>
    /\ error[1] \in {"Unterminated string", "Unterminated template string",
                     "Unterminated block comment", "Unexpected character '"}
    /\ NamesLine(error)
    /\ NamesColumn(error)

\* the tokens of a sequence that are no Newline, in their order
NonNewlines(toks) == SelectSeq(toks, LAMBDA t : t.type # "Newline")

\* C18: newline normalisation.  In the sequence tokenize returns, no Newline
\* token stands right after a {, (, [, comma or semicolon token and no two
\* Newline tokens are adjacent; the tokens that are no Newline are those the
\* loop emitted, in their order, followed by the EOF token.
NewlinesNormalised ==
  /\ [](pc = "tokenized" =>
          \A i \in 2..Len(tokens) :
            tokens[i].type = "Newline" =>
              tokens[i - 1].type \notin {"{", "(", "[", ",", ";", "Newline"})
  /\ [][LexFinish =>
          /\ tokens'[Len(tokens')].type = "EOF"
          /\ SubSeq(NonNewlines(tokens'), 1, Len(NonNewlines(tokens')) - 1)
               = NonNewlines(tokens)]_vars

\* tokenize has returned on a comma, a line feed and a name: the Newline
\* token that followed the comma is gone, the comma and the name are left
NewlineAfterCommaPruned ==
  /\ pc = "tokenized"
  /\ input.kind = "fragments"
  /\ input.fragments = <<<<",">>, <<"\n">>, <<"a">>>>
  /\ Len(tokens) = 3
  /\ tokens[1].type = ","
  /\ tokens[2].type = "Identifier"

\* the reserved words as the language description lists them
ListedReservedWords ==
  { <<"l","e","t">>, <<"v","a","r">>, <<"f","n">>,
    <<"r","e","t","u","r","n">>, <<"i","f">>, <<"e","l","s","e">>,
    <<"f","o","r">>, <<"i","n">>,
    <<"c","o","m","p","o","n","e","n","t">>, <<"s","t","a","t","e">>,
    <<"e","f","f","e","c","t">>, <<"s","t","y","l","e">>,
    <<"i","m","p","o","r","t">>, <<"e","x","p","o","r","t">>,
    <<"f","r","o","m">>, <<"t","r","u","e">>, <<"f","a","l","s","e">>,
    <<"n","u","l","l">> }

\* C19: keyword classification.  A word is emitted as one token whose value
\* is the word; its kind is the keyword kind of the word when the word is
\* exactly one of the listed reserved words, and Identifier for every other
\* word.
KeywordsClassified ==
  (input.kind = "word" /\ pc = "tokenized") =>
    /\ tokens[1].value = input.word
    /\ IF input.word \in ListedReservedWords
       THEN tokens[1].type = Str(input.word)
       ELSE tokens[1].type = "Identifier"

\* C29: in the sequence tokenize returns, no Newline token stands right
\* before a }, ), ] or else token: a Newline emitted just before one of them
\* is removed.
NoNewlineBeforeClosing ==
  (input.kind = "fragments" /\ pc = "tokenized") =>
    \A i \in 1..(Len(tokens) - 1) :
      tokens[i].type = "Newline" =>
        tokens[i + 1].type \notin {"}", ")", "]", "else"}

\* tokenize has returned on a name, a line feed and else: the Newline token
\* between them is gone
NewlineBeforeElsePruned ==
  /\ input.kind = "fragments"
  /\ input.fragments = <<<<"a">>, <<"\n">>, <<"e", "l", "s", "e">>>>
  /\ pc = "tokenized"
  /\ Len(tokens) = 3
  /\ tokens[1].type = "Identifier"
  /\ tokens[2].type = "else"

----------------------------------------------------------------------------
(* Properties of the syntax (SpecSyntax) *)

\* the message names the tag: its text is one of the message's pieces
Names(msg, tag) == \E i \in 1..Len(msg) : msg[i] = Str(tag)

\* C5: tag matching.  When an element opened with tag T and not self-closing
\* is closed by </U> with U different from T, parse fails and the message of
\* its parse error names both T and U; when U is T, parse raises no error.
TagMismatchNamesBoth ==
  (input.kind = "tag" /\ ~input.selfClosing /\ pc \in {"parsed", "threw"}) =>
    IF input.closing # input.tag
    THEN /\ pc = "threw"
         /\ error[1] = "[Parse Error] "
         /\ Names(error, input.tag)
         /\ Names(error, input.closing)
    ELSE pc = "parsed"

\* parse has thrown on <div ...>...</span>
DivClosedBySpan ==
  /\ pc = "threw"
  /\ input.kind = "tag"
  /\ ~input.selfClosing
  /\ input.tag = <<"d", "i", "v">>
  /\ input.closing = <<"s", "p", "a", "n">>

\* C6: component or element.  The node parseUIElement returns for a tag,
\* self-closing or not, is a ComponentInstance named by the tag exactly when
\* the first character of the tag is one of A..Z, and a UIElement with that
\* tag otherwise; its selfClosing flag is true exactly for the form with />.
ComponentIffUpperCase ==
  (input.kind = "tag" /\ pc = "parsed") =>
    /\ Len(ast.body) = 1
    /\ IF input.tag[1] \in Upper
       THEN ast.body[1].type = "ComponentInstance" /\ ast.body[1].name = input.tag
       ELSE ast.body[1].type = "UIElement" /\ ast.body[1].tag = input.tag
    /\ ast.body[1].selfClosing = input.selfClosing

\* parse has returned the node of the self-closing <A .../>
OneLetterComponentParsed ==
  /\ pc = "parsed"
  /\ input.kind = "tag"
  /\ input.selfClosing
  /\ input.tag = <<"A">>
  /\ ast.body[1].type = "ComponentInstance"

\* C7: statement separation inside a block.  For an if statement whose
\* braces hold n assignments separated by ';' or by line feeds, parse returns
\* an IfStatement whose consequent has n entries, the i-th an
\* ExpressionStatement whose expression is the AssignExpr of the i-th
\* assignment.
IfBlockHoldsAssignments ==
  (input.kind = "if" /\ pc \in {"parsed", "threw"}) =>
    /\ pc = "parsed"
    /\ Len(ast.body) = 1
    /\ ast.body[1].type = "IfStatement"
    /\ Len(ast.body[1].consequent) = Len(input.assignments)
    /\ \A i \in 1..Len(input.assignments) :
         /\ ast.body[1].consequent[i].type = "ExpressionStatement"
         /\ ast.body[1].consequent[i].expression.type = "AssignExpr"
         /\ ast.body[1].consequent[i].expression.target =
              [type |-> "Identifier", name |-> Assignments[input.assignments[i]].target]

\* parse has returned on  if inputValue != "" { count = count + 1 ;
\* inputValue = "" }
TwoAssignmentsParsed ==
  /\ pc = "parsed"
  /\ input.kind = "if"
  /\ input.assignments = <<2, 3>>
  /\ input.seps = <<<<" ", ";", " ">>>>
  /\ Len(ast.body[1].consequent) = 2

----------------------------------------------------------------------------
(* Properties of the types (SpecTypes) *)

\* C8: isCompatible(t, t) is true for every type t of the closed set, nested
\* Array types included, and isCompatible(Any, x) and isCompatible(x, Any)
\* are true for every type x.
CompatibleReflexiveAndAny ==
  pc = "compared" =>
    /\ tyA = tyB => compat
    /\ (tyA.kind = "Any" \/ tyB.kind = "Any") => compat

\* an Array of Arrays has been compared with itself
NestedArrayCompared ==
  /\ pc = "compared"
  /\ compat
  /\ tyA = tyB
  /\ tyA.kind = "Array"
  /\ tyA.elementType.kind = "Array"

----------------------------------------------------------------------------
(* Properties of the reuse (SpecReuse) *)

\* C11: the type checker keeps no state between calls.  When check(A) and
\* then check(B) have been called on one TypeChecker, what check returned
\* for B (success and errors) is what a new TypeChecker returns for B: a
\* component declared in A only is unknown while B is checked.
CheckerKeepsNoState ==
  (run = 2 /\ checked # NoResult /\ freshChecked # NoResult) =>
    /\ checked.returned = freshChecked.returned
    /\ checked.success = freshChecked.success
    /\ checked.errors = freshChecked.errors

\* the name the auto-mount statement of a page mounts, "" when the page has
\* no such statement: the page ends with the statement, a line feed and the
\* five pieces that close script, body and html
AutoMounted(html) ==
  IF html[Len(html) - 6] = "({}));" THEN html[Len(html) - 7] ELSE ""

\* the name of the first ComponentDecl of a program's body, "" when none
FirstComponent(program) ==
  LET decls == SelectSeq(program.body, LAMBDA n : n.type = "ComponentDecl")
  IN IF decls = <<>> THEN "" ELSE Str(decls[1].name)

\* C12: the code generator keeps no state between calls.  When generate(A)
\* and then generate(B) have been called on one CodeGenerator, the
\* auto-mount statement of B's html names the first component B declares
\* (and is absent when B declares none), and B's js is the js a new
\* CodeGenerator emits for B: calls are rewritten for B's components only.
GeneratorKeepsNoState ==
  (run = 2 /\ pc = "parsed" /\ out2 # NoResult /\ out2.returned) =>
    /\ AutoMounted(out2.html) = FirstComponent(ast)
    /\ (freshOut # NoResult /\ freshOut.returned) =>
          Text(out2.js) = Text(freshOut.js)

----------------------------------------------------------------------------
(* Properties of the pipe (SpecPipe) *)

\* the chain of the first n stages as a left-nested tree of PipeExpr nodes
RECURSIVE PipeTree(_, _, _)
PipeTree(head, stages, n) ==
  IF n = 0 THEN [type |-> "Identifier", name |-> head]
  ELSE [type |-> "PipeExpr", left |-> PipeTree(head, stages, n - 1),
        right |-> [type |-> "Identifier", name |-> stages[n]]]

\* the call stages[n](...stages[1](head)...) as JavaScript text
RECURSIVE NestedCall(_, _, _)
NestedCall(head, stages, n) ==
  IF n = 0 THEN Str(head)
  ELSE Str(stages[n]) \o "(" \o NestedCall(head, stages, n - 1) \o ")"

\* C17: pipe operator.  A chain x |> f1 |> ... |> fn parses to PipeExpr nodes
\* nested to the left, and the binding let result = x |> f1 |> ... |> fn is
\* lowered to const result = fn(...f1(x)...); which for data |> transform |>
\* render is render(transform(data)).
PipeLowersToNestedCalls ==
  (input.kind = "pipe" /\ pc \notin {"start", "tokenized"}) =>
    /\ pc # "threw"
    /\ Len(ast.body) = 1
    /\ ast.body[1].type = "VariableDecl"
    /\ ast.body[1].value = PipeTree(input.head, input.stages, Len(input.stages))
    /\ out1 # NoResult =>
         /\ out1.returned
         /\ Text(out1.js) =
              "// Lumina Runtime v0.1\n// Generated by Lumina Transpiler\n\n"
                \o "const result = "
                \o NestedCall(input.head, input.stages, Len(input.stages)) \o ";"

\* generate has returned on  let result = data |> transform |> render
DataTransformRenderLowered ==
  /\ input.kind = "pipe"
  /\ input.head = <<"d","a","t","a">>
  /\ input.stages = <<<<"t","r","a","n","s","f","o","r","m">>, <<"r","e","n","d","e","r">>>>
  /\ out1 # NoResult
  /\ out1.returned
  /\ out1.js[Len(out1.js) - 7] = "render"
  /\ out1.js[Len(out1.js) - 5] = "transform"
  /\ out1.js[Len(out1.js) - 3] = "data"

----------------------------------------------------------------------------
(* Properties of the less-than (SpecLess) *)

\* the token after the '<' is an Identifier that begins with an ASCII letter
LetterIdentifierFollows ==
  LET k == LessIndex(input.position) IN
  /\ k + 2 <= Len(tokens)
  /\ tokens[k + 2].type = "Identifier"
  /\ tokens[k + 2].value # <<>>
  /\ tokens[k + 2].value[1] \in Lower \cup Upper

ElementNodes == {"UIElement", "ComponentInstance"}

RelationalAfterOperand ==
  /\ input.kind = "less"
  /\ input.position = "comparison"
  /\ input.operand = <<"(", "b", ")">>
  /\ pc = "parsed"
  /\ ast.body[1].value.type = "BinaryExpr"

----------------------------------------------------------------------------
(* Properties of the scopes (SpecScopes) *)

\* the diagnostics of a check whose message begins with the piece given
Diagnostics(result, piece) ==
  {i \in DOMAIN result.errors : result.errors[i][2] = piece}

\* C21: forward references.  check binds every top-level ComponentDecl and
\* FunctionDecl before it checks a body, so a call of the top-level function
\* f and an instantiation (or call) of the top-level component C from inside
\* a top-level declaration gives no "Undefined variable" and no "Unknown
\* component" diagnostic, whether f and C are declared before or after it.
ForwardReferencesResolve ==
  input.kind = "forward" =>
    /\ pc # "threw"
    /\ checked # NoResult =>
         /\ checked.returned
         /\ Diagnostics(checked, "Undefined variable: ") = {}
         /\ Diagnostics(checked, "Unknown component: ") = {}

\* check has returned on a program in which component A instantiates C
\* before C is declared
InstantiatedBeforeDeclared ==
  /\ input.kind = "forward"
  /\ input.referrer = 3
  /\ input.place = 1
  /\ checked # NoResult
  /\ checked.returned
  /\ ast.body[1].body[1].type = "ComponentInstance"
  /\ ast.body[3].type = "ComponentDecl"

----------------------------------------------------------------------------
(* Properties of the operators (SpecOperators) *)

\* C22: binary operator typing.  For all types l and r of the operands: +
\* yields String if l or r is String and Int if both are Int; - * / % yield
\* Int and report a diagnostic unless l and r are both Int; == != < > <= >=
\* yield Bool and report nothing; && and || yield Bool and report a
\* diagnostic unless l and r are both Bool.
BinaryOperatorTyping ==
  (input.kind = "operator" /\ pc = "typed") =>
    LET op == input.operator
        l == tyA.kind
        r == tyB.kind
    IN /\ checked.returned
       /\ op = "+" =>
            /\ (l = "String" \/ r = "String") => checked.type = TString
            /\ (l = "Int" /\ r = "Int") => checked.type = TInt
       /\ op \in {"-", "*", "/", "%"} =>
            /\ checked.type = TInt
            /\ (checked.errors = <<>>) <=> (l = "Int" /\ r = "Int")
       /\ op \in {"==", "!=", "<", ">", "<=", ">="} =>
            /\ checked.type = TBool
            /\ checked.errors = <<>>
       /\ op \in {"&&", "||"} =>
            /\ checked.type = TBool
            /\ (checked.errors = <<>>) <=> (l = "Bool" /\ r = "Bool")

\* Int - String has been checked: Int, with a diagnostic
IntMinusStringReported ==
  /\ input.kind = "operator"
  /\ input.operator = "-"
  /\ tyA = TInt
  /\ tyB = TString
  /\ pc = "typed"
  /\ checked.type = TInt
  /\ Len(checked.errors) = 1

\* C23: Any and Void are universal.  An expression of type Any (the
\* parameter a, which has no annotation) or Void (the parameter v) is
\* accepted where a type is required: check reports nothing for it as an
\* operand of - * / % && ||, of unary ! and -, as an if condition, as an
\* initializer, as an assigned value and as a call argument.
AnyAndVoidUniversal ==
  (input.kind = "universal" /\ checked # NoResult) =>
    /\ checked.returned
    /\ checked.errors = <<>>

\* the contexts in which check asks isCompatible: an initializer, an assigned
\* value and a call argument
CompatibilityContexts ==
  {c \in DOMAIN UniversalContexts :
     \/ UniversalContexts[c][1] = "l"
     \/ UniversalContexts[c][1] = "n"
     \/ UniversalContexts[c][1] = "h"}

\* what holds of Any and Void: no diagnostic where check asks isCompatible
AnyAndVoidCompatible ==
  (input.kind = "universal" /\ checked # NoResult) =>
    /\ checked.returned
    /\ input.context \in CompatibilityContexts => checked.errors = <<>>
    /\ input.context \notin CompatibilityContexts => Len(checked.errors) = 1

\* C30: a FunctionDecl in the body of a component or function is bound in no
\* scope of the checker, so a reference to its name from a sibling statement
\* or from a UI expression reports "Undefined variable", and the same
\* reference to a FunctionDecl of the top level does not.
NestedFunctionUnbound ==
  input.kind = "helper" =>
    /\ pc # "threw"
    /\ checked # NoResult =>
         /\ checked.returned
         /\ IF input.place = "nested"
            THEN /\ Diagnostics(checked, "Undefined variable: ") # {}
                 /\ \A i \in Diagnostics(checked, "Undefined variable: ") :
                      checked.errors[i][3] = "helper"
            ELSE Diagnostics(checked, "Undefined variable: ") = {}

\* check has reported helper, declared in the body of component A, as
\* undefined in a UI expression of A
HelperUndefinedInUIExpression ==
  /\ input.kind = "helper"
  /\ input.place = "nested"
  /\ input.owner = "component"
  /\ input.ref = 4
  /\ input.first
  /\ checked # NoResult
  /\ checked.errors = <<<<"[Type Error] ", "Undefined variable: ", "helper">>>>

----------------------------------------------------------------------------
(* Properties of the instances (SpecInstances) *)

\* the ComponentInstance node of the input in the tree that parse returned
InstanceNode ==
  CASE input.place = "root" -> ast.body[1].body[1]
    [] input.place = "child" -> ast.body[1].body[1].children[1]
    [] input.place = "grandchild" -> ast.body[1].body[1].children[1].children[1]

\* the key an instance's prop is passed under: its name without a leading @
PropKey(name) == IF name[1] = "@" THEN Str(Tail(name)) ELSE Str(name)

\* the code calls the function name: the name, then an opening parenthesis
CallsFunction(js, name) ==
  \E i \in 1..(Len(js) - 1) : js[i] = name /\ js[i + 1] \in {"(", "({", "({ "}

\* C24: lowering of ComponentInstance.  An instance in a component's UI tree,
\* as the root UI node or as a child of an element, is lowered to a call of
\* the function of its name with one object literal that has an entry for
\* each prop, an event prop under its name without the @.
InstancesLowered ==
  (input.kind = "instance" /\ out1 # NoResult) =>
    /\ out1.returned
    /\ CallsFunction(out1.js, Str(input.name))
    /\ \A p \in input.given :
         \E i \in DOMAIN out1.js :
           out1.js[i] \in {PropKey(InstancePropNames[p]),
                           PropKey(InstancePropNames[p]) \o ": "}

\* what generate does with an instance: the root instance becomes the
\* placeholder comment, an instance among an element's children becomes
\* nothing, and no piece of the code holds its name
InstancesDropped ==
  (input.kind = "instance" /\ out1 # NoResult) =>
    /\ out1.returned
    /\ InstanceNode.type = "ComponentInstance"
    /\ \A i \in DOMAIN out1.js : out1.js[i] # Str(input.name)
    /\ (input.place = "root") <=>
         \E i \in DOMAIN out1.js :
           out1.js[i] = "/* unknown: " /\ out1.js[i + 1] = "ComponentInstance"

----------------------------------------------------------------------------
(* Properties of the cursor (SpecCursor) *)

\* parse has run on tokens that end with EOF
ParseRan ==
  /\ pc \in {"parsed", "threw"}
  /\ tokens # <<>>
  /\ tokens[Len(tokens)].type = "EOF"

\* C27: the parser's cursor.  On tokens that end with an EOF token, pos
\* stays between 0 and the index of the EOF token to the end of parse,
\* whether parse returns or throws, and no token is read outside the
\* sequence (reading one is a TypeError on undefined); the lookaheads
\* isArrowFunction and isObjectLiteral are functions of pos that return a
\* boolean and nothing else.
CursorWithinTokens ==
  ParseRan =>
    /\ parsePos \in 0..(Len(tokens) - 1)
    /\ error # TypeErrorMessage
    /\ pc = "parsed" => parsePos = Len(tokens) - 1
    /\ \A p \in 0..(Len(tokens) - 1) :
         /\ isArrowFunction(p) \in BOOLEAN
         /\ isObjectLiteral(p) \in BOOLEAN

\* parse has thrown with the cursor on the EOF token, in the middle of a
\* statement
ThrewAtEOF ==
  /\ ParseRan
  /\ pc = "threw"
  /\ Len(tokens) > 2
  /\ parsePos = Len(tokens) - 1
----------------------------------------------------------------------------
(* Properties of the page (SpecRuntime)                                    *)

\* the component of the page and its root: the UI element genComponent
\* renders, the last one of the body
PageComponent == ast.body[1]

RootElement ==
  LET body == PageComponent.body
      k == CHOOSE i \in DOMAIN body :
             body[i].type = "UIElement"
               /\ \A j \in DOMAIN body : body[j].type = "UIElement" => j <= i
  IN body[k]

\* the EffectDecls of the component, in the order of their declaration
DeclaredEffects == SelectSeq(PageComponent.body, LAMBDA d : d.type = "EffectDecl")

\* the tree below node id of the document
RECURSIVE TreeAt(_, _)
TreeAt(doc, id) ==
  [tag |-> doc.nodes[id].tag,
   kids |-> [k \in DOMAIN doc.kids[id] |-> TreeAt(doc, doc.kids[id][k])]]

TextTree == [tag |-> "#text", kids |-> <<>>]

\* the tree the source describes for a UI element when the conditions are
\* found to be choices.cond and the iterables to have choices.items items:
\* an element for each UIElement under the element of its syntactic parent,
\* a text for each text and expression, in the order of the source
RECURSIVE TreeOf(_, _), TreesOf(_, _), Repeated(_, _)
Repeated(trees, n) == IF n = 0 THEN <<>> ELSE trees \o Repeated(trees, n - 1)

TreesOf(nodes, choices) ==
  Flatten([k \in DOMAIN nodes |->
    LET child == nodes[k] IN
    CASE child.type = "UIElement" -> <<TreeOf(child, choices)>>
      [] child.type \in {"UIText", "UIExpression"} -> <<TextTree>>
      [] child.type = "IfStatement" ->
           IF choices.cond THEN TreesOf(child.consequent, choices)
           ELSE IF child.hasAlternate THEN TreesOf(child.alternate, choices)
           ELSE <<>>
      [] child.type = "ForStatement" ->
           Repeated(TreesOf(child.body, choices), choices.items)
      [] OTHER -> <<>>])

TreeOf(node, choices) ==
  [tag |-> Str(node.tag), kids |-> TreesOf(node.children, choices)]

\* C28: after a __render of a lowered component has completed, the container
\* holds exactly one child, the root UI element; the element of every nested
\* UIElement is a child of the element of its syntactic parent, the children
\* of each element are in source order, and nothing is left in the fragment
RenderedTreeShape ==
  pc = "mounted" =>
    /\ rt.doc.fragment = <<>>
    /\ Len(rt.doc.el) = 1
    /\ TreeAt(rt.doc, rt.doc.el[1]) = TreeOf(RootElement, rt.choices)

\* a second render has completed in which an element holds an element that
\* holds an element
NestedElementsRendered ==
  /\ pc = "mounted"
  /\ rt.renders = 2
  /\ \E a, b, d \in DOMAIN rt.doc.nodes :
       /\ rt.doc.el = <<a>>
       /\ \E k \in DOMAIN rt.doc.kids[a] : rt.doc.kids[a][k] = b
       /\ \E k \in DOMAIN rt.doc.kids[b] : rt.doc.kids[b][k] = d
       /\ rt.doc.nodes[d].tag # "#text"

WritesAreRendered == pc = "mounted" => ~rt.stale

====
